---- MODULE Spec2Model ----
(***************************************************************************)
(* Model of lab_manager.py (LabManager): the CSV roster, the port and      *)
(* subnet allocators and the centralized assignment service                *)
(* ensure_assignments, with the roster load and rewrite it is built on.    *)
(*                                                                         *)
(* A roster file is a header (sequence of column names) and rows (one      *)
(* function column -> cell per row).  The cells of the port and subnet_id  *)
(* columns are texts: sequences of one-character strings, parsed by        *)
(* strip / isdigit / int and written back by str.  The cells of the other  *)
(* columns are atoms (TLA+ strings); the strip applied to student_id and   *)
(* student_name is not modelled (the identifiers used carry no blanks).    *)
(***************************************************************************)
EXTENDS Integers, Sequences, FiniteSets, TLC

VARIABLES csv,      \* the roster file on disk
          pre,      \* the roster file as it was when the last call started
          batch,    \* the students argument of the last ensure_assignments call
          result,   \* the list the last call returned
          wrote,    \* write_students_csv in the last call: "skipped" (not
                    \* invoked), "ok" (returned True), "failed" (returned False)
          op,       \* the last operation: "none", "ensure", "read"
          prev,     \* the operation before the last one
          alloc,    \* the last call of an allocator: its arguments and value
          running,  \* the student ids that have containers in the runtime
          orch,     \* the last operation of the orchestrator
          calls,    \* ensure_assignments invocations running side by side
          containers \* the containers docker ps -a lists, by name

vars == <<csv, pre, batch, result, wrote, op, prev, alloc, running, orch,
          calls, containers>>

(***************************************************************************)
(* Bounds of the model.                                                    *)
(***************************************************************************)
MaxRows == 2      \* rows of an initial roster file
MaxOps == 2       \* operations that follow one another on one runtime

(***************************************************************************)
(* Program constants.                                                      *)
(***************************************************************************)
BasePort == 2222        \* auto_assign_port: port = 2222
MinUsedPort == 2222     \* get_used_ports: if port >= 2222
SubnetMod == 254        \* calculate_subnet_id: hash_int % 254
None == 0 - 1           \* Python None in an Optional[int] field
NoOwner == "<none>"     \* dict.get(...) returning None for an owner lookup

Range(s) == {s[i] : i \in 1..Len(s)}

\* the value of x, computed once where it is written (operator arguments
\* and LET definitions are otherwise evaluated anew at each use)
Value(x) == CHOOSE y \in {x} : TRUE

(***************************************************************************)
(* Texts: str.strip, str.isdigit, int(str), str(int).                      *)
(***************************************************************************)
DigitChars == <<"0", "1", "2", "3", "4", "5", "6", "7", "8", "9">>

\* characters that str.isdigit accepts and int() rejects with ValueError:
\* the superscript digits, of which "^2" stands for U+00B2
SuperDigits == {"^2"}

IsDecimalChar(c) == \E i \in 1..10 : DigitChars[i] = c

IsDigitChar(c) == IsDecimalChar(c) \/ c \in SuperDigits

DigitVal(c) == (CHOOSE i \in 1..10 : DigitChars[i] = c) - 1

RECURSIVE LStrip(_)
LStrip(t) == IF t # <<>> /\ Head(t) = " " THEN LStrip(Tail(t)) ELSE t

RECURSIVE RStrip(_)
RStrip(t) ==
    IF t # <<>> /\ t[Len(t)] = " " THEN RStrip(SubSeq(t, 1, Len(t) - 1)) ELSE t

Strip(t) == RStrip(LStrip(t))

IsDigit(t) == t # <<>> /\ \A i \in 1..Len(t) : IsDigitChar(t[i])

\* int(t) raises ValueError although t.isdigit() holds
IntRaises(t) == IsDigit(t) /\ \E i \in 1..Len(t) : ~IsDecimalChar(t[i])

RECURSIVE IntOf(_)
IntOf(t) ==
    IF t = <<>> THEN 0
    ELSE 10 * IntOf(SubSeq(t, 1, Len(t) - 1)) + DigitVal(t[Len(t)])

RECURSIVE StrOf(_)
StrOf(n) ==
    IF n < 10 THEN <<DigitChars[n + 1]>>
    ELSE StrOf(n \div 10) \o <<DigitChars[(n % 10) + 1]>>

\* csv.DictWriter writes None as the empty string and an int through str
CellOf(v) == IF v = None THEN <<>> ELSE StrOf(v)

(***************************************************************************)
(* The roster file.                                                        *)
(***************************************************************************)
DefaultFieldnames == <<"student_id", "student_name", "port", "subnet_id">>

NoFile == [exists |-> FALSE, header |-> <<>>, rows |-> <<>>]

HasCol(row, c) == c \in DOMAIN row

\* get_used_ports, one row: the port it adds to used_ports, if any
UsedPortOf(row) ==
    IF HasCol(row, "port") /\ row["port"] # <<>>
    THEN LET port_value == Value(Strip(row["port"]))
         IN  IF port_value # <<>> /\ IsDigit(port_value)
             THEN LET port == Value(IntOf(port_value))
                  IN  IF port >= MinUsedPort THEN {port} ELSE {}
             ELSE {}
    ELSE {}

\* int(value) raises on the cell of column c, in one of the two scans
UsedRaises(row, c) ==
    HasCol(row, c) /\ row[c] # <<>> /\ IntRaises(Strip(row[c]))

\* variant: a missing file taken to hold the first port
get_used_ports_of_missing(f) ==
    IF ~f.exists \/ \E i \in 1..Len(f.rows) : UsedRaises(f.rows[i], "port")
    THEN {MinUsedPort}
    ELSE UNION {UsedPortOf(f.rows[i]) : i \in 1..Len(f.rows)}

\* get_used_ports: the ports >= 2222 written in the file, or the empty set
\* when the file is missing or the scan raises
get_used_ports(f) ==
    IF ~f.exists THEN {}
    ELSE IF \E i \in 1..Len(f.rows) : UsedRaises(f.rows[i], "port") THEN {}
    ELSE UNION {UsedPortOf(f.rows[i]) : i \in 1..Len(f.rows)}

\* get_used_subnets, one row: the subnet it adds to used_subnets, if any
UsedSubnetOf(row) ==
    IF HasCol(row, "subnet_id") /\ row["subnet_id"] # <<>>
    THEN LET subnet_value == Value(Strip(row["subnet_id"]))
         IN  IF subnet_value # <<>> /\ IsDigit(subnet_value)
             THEN {IntOf(subnet_value)}
             ELSE {}
    ELSE {}

\* get_used_subnets: every all-digit subnet_id written in the file, or the
\* empty set when the file is missing or the scan raises
get_used_subnets(f) ==
    IF ~f.exists THEN {}
    ELSE IF \E i \in 1..Len(f.rows) : UsedRaises(f.rows[i], "subnet_id")
    THEN {}
    ELSE UNION {UsedSubnetOf(f.rows[i]) : i \in 1..Len(f.rows)}

\* int(text) when the text is a positive integer, else the given default
PositiveOr(text, default) ==
    IF text # <<>> /\ IsDigit(text)
    THEN LET n == Value(IntOf(text)) IN IF n > 0 THEN n ELSE default
    ELSE default

\* read_students_csv, the port of one row: 0 unless a positive integer
ParsePort(row) ==
    PositiveOr(IF HasCol(row, "port") THEN Value(Strip(row["port"])) ELSE <<>>, 0)

\* read_students_csv, the subnet_id of one row: None unless a positive integer
ParseSubnet(row) ==
    PositiveOr(IF HasCol(row, "subnet_id") THEN Value(Strip(row["subnet_id"]))
               ELSE <<>>, None)

\* int(value) raises on the cell of column c of a row being loaded
LoadRaises(row, c) == HasCol(row, c) /\ IntRaises(Strip(row[c]))

\* read_students_csv raises inside its try block (and returns []) when the
\* file is missing, a row lacks the student_id or student_name key, or
\* int() rejects a port or subnet_id that isdigit() accepted
ReadFails(f) ==
    \/ ~f.exists
    \/ /\ Len(f.rows) > 0
       /\ ~({"student_id", "student_name"} \subseteq Range(f.header))
    \/ \E i \in 1..Len(f.rows) :
          LoadRaises(f.rows[i], "port") \/ LoadRaises(f.rows[i], "subnet_id")

\* read_students_csv, the record appended for one row
ParseRow(row) ==
    [student_id   |-> row["student_id"],
     student_name |-> row["student_name"],
     port         |-> ParsePort(row),
     subnet_id    |-> ParseSubnet(row)]

\* the loop of read_students_csv over the rows, in file order
RECURSIVE ParseFrom(_)
ParseFrom(rows) ==
    IF rows = <<>> THEN <<>>
    ELSE IF Len(rows) = 1 THEN <<ParseRow(rows[1])>>
    ELSE LET half == Len(rows) \div 2
         IN  ParseFrom(SubSeq(rows, 1, half))
                \o ParseFrom(SubSeq(rows, half + 1, Len(rows)))

\* read_students_csv(csv_file, update_if_changed=False)
ParseRows(f) == IF ReadFails(f) THEN <<>> ELSE ParseFrom(f.rows)

(***************************************************************************)
(* Allocators.                                                             *)
(***************************************************************************)
\* int(hashlib.md5(student_id.encode()).hexdigest(), 16) % 254 for the
\* student identifiers of the model (values of the real MD5 digests)
Md5Mod254(student_id) ==
    CASE student_id = "student001" -> 183
      [] student_id = "student004" -> 182
      [] student_id = "student421" -> 182
      [] student_id = "student227" -> 253
      [] student_id = "student213" -> 0
      [] student_id = "s1" -> 66

\* a call that has not returned when the model stops following its loop
NoReturn == 0 - 2

\* variant: the probe goes on to subnet_id + 1 without wrapping at 254
ProbeStep_no_wrap(s, base_subnet, used_subnets) ==
    IF s.stopped THEN s
    ELSE IF s.subnet_id \notin used_subnets THEN [s EXCEPT !.stopped = TRUE]
    ELSE [subnet_id |-> s.subnet_id + 1, passes |-> s.passes + 1,
          stopped |-> s.subnet_id + 1 = base_subnet]

\* variant: the break taken one value past the natural subnet
ProbeStep_early_break(s, base_subnet, used_subnets) ==
    IF s.stopped THEN s
    ELSE IF s.subnet_id \notin used_subnets THEN [s EXCEPT !.stopped = TRUE]
    ELSE LET next == (s.subnet_id % SubnetMod) + 1
         IN  [subnet_id |-> next, passes |-> s.passes + 1,
              stopped |-> next = (base_subnet % SubnetMod) + 1]

\* the while loop of calculate_subnet_id: one test of its condition and,
\* when the condition holds, one pass through its body (with its break)
ProbeStep(s, base_subnet, used_subnets) ==
    IF s.stopped THEN s
    ELSE IF s.subnet_id \notin used_subnets THEN [s EXCEPT !.stopped = TRUE]
    ELSE LET next == (s.subnet_id % SubnetMod) + 1
         IN  [subnet_id |-> next, passes |-> s.passes + 1,
              stopped |-> next = base_subnet]

\* at most n steps of the loop
RECURSIVE ProbeRun(_, _, _, _)
ProbeRun(s, base_subnet, used_subnets, n) ==
    IF s.stopped \/ n = 0 THEN s
    ELSE IF n = 1 THEN ProbeStep(s, base_subnet, used_subnets)
    ELSE ProbeRun(Value(ProbeRun(s, base_subnet, used_subnets, n \div 2)),
                  base_subnet, used_subnets, n - (n \div 2))

\* the loop, followed for two cycles of the 254 values
ProbeSubnet(base_subnet, used_subnets) ==
    ProbeRun([subnet_id |-> base_subnet, passes |-> 0, stopped |-> FALSE],
             base_subnet, used_subnets, 2 * SubnetMod)

\* variant: the hash value is returned without looking at used_subnets
calculate_subnet_id_no_probe(student_id, used_subnets) ==
    (Md5Mod254(student_id) % SubnetMod) + 1

calculate_subnet_id(student_id, used_subnets) ==
    LET base_subnet == (Md5Mod254(student_id) % SubnetMod) + 1
        s == Value(ProbeSubnet(base_subnet, used_subnets))
    IN  IF s.stopped THEN s.subnet_id ELSE NoReturn

\* variant: the scan goes on two ports at a time
ScanStep_by_two(s, existing_ports) ==
    IF s.stopped THEN s
    ELSE IF s.port \in existing_ports
         THEN [s EXCEPT !.port = s.port + 2, !.passes = s.passes + 1]
         ELSE [s EXCEPT !.stopped = TRUE]

\* the while loop of auto_assign_port: one test of its condition and, when
\* the condition holds, one pass through its body
ScanStep(s, existing_ports) ==
    IF s.stopped THEN s
    ELSE IF s.port \in existing_ports
         THEN [s EXCEPT !.port = s.port + 1, !.passes = s.passes + 1]
         ELSE [s EXCEPT !.stopped = TRUE]

\* at most n steps of the loop
RECURSIVE ScanRun(_, _, _)
ScanRun(s, existing_ports, n) ==
    IF s.stopped \/ n = 0 THEN s
    ELSE IF n = 1 THEN ScanStep(s, existing_ports)
    ELSE ScanRun(Value(ScanRun(s, existing_ports, n \div 2)),
                 existing_ports, n - (n \div 2))

\* the loop, followed for two steps more than existing_ports has elements
ScanPort(existing_ports) ==
    ScanRun([port |-> BasePort, passes |-> 0, stopped |-> FALSE],
            existing_ports, Cardinality(existing_ports) + 2)

\* variant: the scan returns its first port, used or not
auto_assign_port_first(existing_ports) == BasePort

auto_assign_port(existing_ports) ==
    LET s == Value(ScanPort(existing_ports))
    IN  IF s.stopped THEN s.port ELSE NoReturn

(***************************************************************************)
(* ensure_assignments.                                                     *)
(***************************************************************************)
\* rows of the loaded roster that carry a port / a subnet
PortRows(existing) == {i \in 1..Len(existing) : existing[i].port > 0}

SubnetRows(existing) ==
    {i \in 1..Len(existing) :
        existing[i].subnet_id # None /\ existing[i].subnet_id # 0}

\* existing_port_owners: a port maps to the student_id of the first row
\* that carries it (port_counts[port] == 1 when that row is scanned)
existing_port_owners(existing) ==
    [p \in {existing[i].port : i \in PortRows(existing)} |->
        existing[CHOOSE i \in PortRows(existing) :
                    /\ existing[i].port = p
                    /\ \A j \in PortRows(existing) :
                          existing[j].port = p => i <= j].student_id]

\* variant: no port is ever flagged as duplicated on disk
duplicate_ports_none(existing) == {}

\* duplicate_ports: the ports carried by more than one row
duplicate_ports(existing) ==
    {p \in {existing[i].port : i \in PortRows(existing)} :
        Cardinality({i \in PortRows(existing) : existing[i].port = p}) > 1}

existing_subnet_owners(existing) ==
    [s \in {existing[i].subnet_id : i \in SubnetRows(existing)} |->
        existing[CHOOSE i \in SubnetRows(existing) :
                    /\ existing[i].subnet_id = s
                    /\ \A j \in SubnetRows(existing) :
                          existing[j].subnet_id = s => i <= j].student_id]

duplicate_subnets(existing) ==
    {s \in {existing[i].subnet_id : i \in SubnetRows(existing)} :
        Cardinality({i \in SubnetRows(existing) : existing[i].subnet_id = s}) > 1}

\* dict.get(key): the owner, or None
OwnerOf(owners, v) == IF v \in DOMAIN owners THEN owners[v] ELSE NoOwner

\* what ensure_assignments derives from the loaded roster before its loop
Ownership(existing) ==
    [existing_port_owners |-> existing_port_owners(existing),
     existing_subnet_owners |-> existing_subnet_owners(existing),
     duplicate_ports |-> duplicate_ports(existing),
     duplicate_subnets |-> duplicate_subnets(existing)]

\* variant: a port found in used_ports is taken, whoever owns it
needs_new_port_no_owner(student, own, used_ports, assigned_ports_in_batch) ==
    IF student.port = None \/ student.port <= 0 THEN TRUE
    ELSE IF student.port \in assigned_ports_in_batch THEN TRUE
    ELSE IF student.port \in own.duplicate_ports THEN TRUE
    ELSE student.port \in used_ports

\* variant: the ports claimed earlier in the batch are not looked at
needs_new_port_no_batch(student, own, used_ports, assigned_ports_in_batch) ==
    IF student.port = None \/ student.port <= 0 THEN TRUE
    ELSE IF student.port \in own.duplicate_ports THEN TRUE
    ELSE IF student.port \in used_ports \ assigned_ports_in_batch
         THEN OwnerOf(own.existing_port_owners, student.port)
                 # student.student_id
    ELSE FALSE

\* the if / elif chain deciding needs_new_port for one batch record
needs_new_port(student, own, used_ports, assigned_ports_in_batch) ==
    IF student.port = None \/ student.port <= 0 THEN TRUE
    ELSE IF student.port \in assigned_ports_in_batch THEN TRUE
    ELSE IF student.port \in own.duplicate_ports THEN TRUE
    ELSE IF student.port \in used_ports
         THEN OwnerOf(own.existing_port_owners, student.port)
                 # student.student_id
    ELSE FALSE

\* variant: a subnet found on disk is kept, whoever owns it
needs_new_subnet_keep(student, own, used_subnets, assigned_subnets_in_batch) ==
    IF student.subnet_id = None \/ student.subnet_id = 0 THEN TRUE
    ELSE IF student.subnet_id \in assigned_subnets_in_batch THEN TRUE
    ELSE student.subnet_id \in own.duplicate_subnets

\* the if / elif chain deciding needs_new_subnet for one batch record
needs_new_subnet(student, own, used_subnets, assigned_subnets_in_batch) ==
    IF student.subnet_id = None \/ student.subnet_id = 0 THEN TRUE
    ELSE IF student.subnet_id \in assigned_subnets_in_batch THEN TRUE
    ELSE IF student.subnet_id \in own.duplicate_subnets THEN TRUE
    ELSE IF student.subnet_id \in used_subnets
         THEN OwnerOf(own.existing_subnet_owners, student.subnet_id)
                 # student.student_id
    ELSE FALSE

\* the state of the loop over the batch before its first iteration
LoopStart(f) ==
    [used_ports |-> get_used_ports(f),
     used_subnets |-> get_used_subnets(f),
     assigned_ports_in_batch |-> {},
     assigned_subnets_in_batch |-> {},
     updated_students |-> <<>>,
     changes_made |-> FALSE]

\* variant: the loop body that records nothing it assigned
LoopBody_no_claim(student, own, acc) ==
    LET new_p == Value(needs_new_port(student, own, acc.used_ports,
                                      acc.assigned_ports_in_batch))
        port == Value(IF new_p
                      THEN auto_assign_port(acc.used_ports
                                              \cup acc.assigned_ports_in_batch)
                      ELSE student.port)
        new_s == Value(needs_new_subnet(student, own, acc.used_subnets,
                                        acc.assigned_subnets_in_batch))
        subnet == Value(IF new_s
                        THEN calculate_subnet_id(student.student_id,
                                acc.used_subnets
                                    \cup acc.assigned_subnets_in_batch)
                        ELSE student.subnet_id)
    IN  [acc EXCEPT
           !.updated_students =
               Append(acc.updated_students,
                      [student EXCEPT !.port = port, !.subnet_id = subnet]),
           !.changes_made = acc.changes_made \/ new_p \/ new_s]

\* one iteration of the loop over the batch
LoopBody(student, own, acc) ==
    LET new_p == Value(needs_new_port(student, own, acc.used_ports,
                                      acc.assigned_ports_in_batch))
        port == Value(IF new_p
                      THEN auto_assign_port(acc.used_ports
                                              \cup acc.assigned_ports_in_batch)
                      ELSE student.port)
        new_s == Value(needs_new_subnet(student, own, acc.used_subnets,
                                        acc.assigned_subnets_in_batch))
        subnet == Value(IF new_s
                        THEN calculate_subnet_id(student.student_id,
                                acc.used_subnets
                                    \cup acc.assigned_subnets_in_batch)
                        ELSE student.subnet_id)
    IN  [used_ports |-> acc.used_ports \cup {port},
         used_subnets |-> acc.used_subnets \cup {subnet},
         assigned_ports_in_batch |-> acc.assigned_ports_in_batch \cup {port},
         assigned_subnets_in_batch |-> acc.assigned_subnets_in_batch \cup {subnet},
         updated_students |->
             Append(acc.updated_students,
                    [student EXCEPT !.port = port, !.subnet_id = subnet]),
         changes_made |-> acc.changes_made \/ new_p \/ new_s]

RECURSIVE Loop(_, _, _, _)
Loop(students, i, own, acc) ==
    IF i > Len(students) THEN acc
    ELSE Loop(students, i + 1, own, Value(LoopBody(students[i], own, acc)))

(***************************************************************************)
(* write_students_csv.                                                     *)
(***************************************************************************)
\* fieldnames: the columns of the existing file, with port and subnet_id
\* appended when missing; the default columns when there is no header
Fieldnames(f) ==
    LET existing_columns == IF f.exists THEN f.header ELSE <<>>
        with_port == IF "port" \in Range(existing_columns)
                     THEN existing_columns
                     ELSE Append(existing_columns, "port")
        with_subnet == IF "subnet_id" \in Range(with_port)
                       THEN with_port
                       ELSE Append(with_port, "subnet_id")
    IN  IF existing_columns # <<>> THEN with_subnet ELSE DefaultFieldnames

\* the row dictionary written for one student: its four fields, and the
\* empty string under every other column of fieldnames
RowOf(student, fieldnames) ==
    [c \in Range(fieldnames) |->
        CASE c = "student_id"   -> student.student_id
          [] c = "student_name" -> student.student_name
          [] c = "port"         -> CellOf(student.port)
          [] c = "subnet_id"    -> CellOf(student.subnet_id)
          [] OTHER              -> ""]

\* csv.DictWriter.writerow raises ValueError for a row with a key that is
\* not in fieldnames; the file then holds what was written before
WriteRaises(fieldnames, students) ==
    /\ students # <<>>
    /\ ~(Range(DefaultFieldnames) \subseteq Range(fieldnames))

\* the loop of write_students_csv over the students
RECURSIVE RowsOf(_, _)
RowsOf(students, fieldnames) ==
    IF students = <<>> THEN <<>>
    ELSE IF Len(students) = 1 THEN <<RowOf(students[1], fieldnames)>>
    ELSE LET half == Len(students) \div 2
         IN  RowsOf(SubSeq(students, 1, half), fieldnames)
                \o RowsOf(SubSeq(students, half + 1, Len(students)),
                          fieldnames)

\* the file after write_students_csv(csv_file, students), and its result
write_students_csv(f, students) ==
    LET fieldnames == Value(Fieldnames(f))
    IN  IF WriteRaises(fieldnames, students)
        THEN [ok |-> FALSE,
              file |-> [exists |-> TRUE, header |-> fieldnames, rows |-> <<>>]]
        ELSE [ok |-> TRUE,
              file |-> [exists |-> TRUE, header |-> fieldnames,
                        rows |-> RowsOf(students, fieldnames)]]

(***************************************************************************)
(* The merge of the updated batch into the roster, and the call itself.    *)
(***************************************************************************)
\* student_lookup: a dictionary built in batch order, so the last record
\* of a student_id wins
student_lookup(updated_students, student_id) ==
    updated_students[CHOOSE i \in 1..Len(updated_students) :
        /\ updated_students[i].student_id = student_id
        /\ \A j \in 1..Len(updated_students) :
              updated_students[j].student_id = student_id => j <= i]

RECURSIVE SelectNew(_, _)
SelectNew(updated_students, existing_ids) ==
    IF updated_students = <<>> THEN <<>>
    ELSE IF Head(updated_students).student_id \in existing_ids
         THEN SelectNew(Tail(updated_students), existing_ids)
         ELSE <<Head(updated_students)>>
                 \o SelectNew(Tail(updated_students), existing_ids)

\* the first merge loop: a roster record whose student_id is in the batch
\* is replaced by the batch's record
RECURSIVE ReplaceFrom(_, _, _)
ReplaceFrom(all_students, updated_students, batch_ids) ==
    IF all_students = <<>> THEN <<>>
    ELSE IF Len(all_students) = 1
    THEN <<IF all_students[1].student_id \in batch_ids
           THEN student_lookup(updated_students, all_students[1].student_id)
           ELSE all_students[1]>>
    ELSE LET half == Len(all_students) \div 2
         IN  ReplaceFrom(SubSeq(all_students, 1, half),
                         updated_students, batch_ids)
                \o ReplaceFrom(SubSeq(all_students, half + 1,
                                      Len(all_students)),
                               updated_students, batch_ids)

\* variant: every batch record is appended, known student_id or not
MergeStudents_append_all(all_students, updated_students) ==
    LET batch_ids == Value({updated_students[i].student_id :
                              i \in 1..Len(updated_students)})
    IN  ReplaceFrom(all_students, updated_students, batch_ids)
            \o updated_students

\* all_students after the two merge loops
MergeStudents(all_students, updated_students) ==
    LET batch_ids == Value({updated_students[i].student_id :
                              i \in 1..Len(updated_students)})
        existing_ids == Value({all_students[i].student_id :
                                 i \in 1..Len(all_students)})
    IN  ReplaceFrom(all_students, updated_students, batch_ids)
            \o SelectNew(updated_students, existing_ids)

\* ensure_assignments(students, csv_file) on the file f: the returned list,
\* the file afterwards and what became of the call to write_students_csv
ensure_assignments(students, f) ==
    IF students = <<>>
    THEN [result |-> students, file |-> f, wrote |-> "skipped"]
    ELSE LET existing == Value(ParseRows(f))
             final == Value(Loop(students, 1, Value(Ownership(existing)),
                                 Value(LoopStart(f))))
             written == Value(write_students_csv(f,
                                 MergeStudents(Value(ParseRows(f)),
                                               final.updated_students)))
         IN  IF final.changes_made
             THEN [result |-> final.updated_students,
                   file |-> written.file,
                   wrote |-> IF written.ok THEN "ok" ELSE "failed"]
             ELSE [result |-> final.updated_students, file |-> f,
                   wrote |-> "skipped"]

(***************************************************************************)
(* Inputs of the model: roster files and batches.                          *)
(***************************************************************************)
StudentIds == {"student001", "student004", "student421"}

\* the student_name column of a roster row, and the name a caller's record
\* carries (test_ensure_assignments_complete_data: 'Alice' / 'Alice Smith')
DiskName == "Alice"
BatchName == "Alice Smith"

Unassigned == << <<>>, <<>> >>
InRange == << <<"2", "2", "2", "2">>, <<"1", "8", "3">> >>
OutOfRange == << <<"8", "0">>, <<"3", "0", "0">> >>

\* (port, subnet_id) cells of a roster row
DiskValues == {Unassigned, InRange, OutOfRange}

\* (port, subnet_id) of a record handed to ensure_assignments
BatchValues == { <<0, None>>, <<2222, 183>>, <<2223, 183>>, <<80, 300>> }

SeqsUpTo(S, n) == UNION {[1..k -> S] : k \in 0..n}

FilesOf(header, rows) ==
    { [exists |-> TRUE, header |-> header, rows |-> r] :
        r \in SeqsUpTo(rows, MaxRows) }

\* rosters with the default header
PlainFiles ==
    FilesOf(DefaultFieldnames,
            { [student_id |-> id, student_name |-> DiskName, port |-> v[1],
               subnet_id |-> v[2]] : id \in StudentIds, v \in DiskValues })

\* rosters with an extra column, cohort, between the name and the port
CohortFiles ==
    FilesOf(<<"student_id", "student_name", "cohort", "port", "subnet_id">>,
            { [student_id |-> id, student_name |-> DiskName, cohort |-> "A",
               port |-> v[1], subnet_id |-> v[2]] :
                 id \in StudentIds, v \in {Unassigned, InRange} })

\* rosters with the two required columns only
BareFiles ==
    FilesOf(<<"student_id", "student_name">>,
            { [student_id |-> id, student_name |-> DiskName] :
                 id \in StudentIds })

\* rosters whose identifier column is not named student_id
MisnamedFiles ==
    FilesOf(<<"id", "student_name", "port", "subnet_id">>,
            { [id |-> id, student_name |-> DiskName, port |-> InRange[1],
               subnet_id |-> InRange[2]] : id \in StudentIds })

Files == PlainFiles \cup CohortFiles \cup BareFiles \cup MisnamedFiles
            \cup {NoFile}

BatchRecords ==
    { [student_id |-> id, student_name |-> BatchName, port |-> v[1],
       subnet_id |-> v[2]] : id \in StudentIds, v \in BatchValues }

\* batches of a caller: no, one or two records, of distinct students (a
\* longer batch, or one with a repeated student_id, arises from a roster
\* load, see ReadStudentsCsv)
Batches ==
    {<<>>} \cup {<<r>> : r \in BatchRecords}
           \cup {<<p[1], p[2]>> :
                    p \in {q \in BatchRecords \X BatchRecords :
                              q[1].student_id # q[2].student_id}}

\* the orchestrator has not been asked anything
Idle ==
    [name |-> "none", parallel |-> FALSE, students |-> <<>>,
     running_ids |-> {}, attempts |-> {}, inflight |-> {}, ret |-> "none",
     before |-> {}, events |-> <<>>, ensuring |-> {}, ops |-> 0]

\* no allocator was called
NoCall == [fn |-> "none", student_id |-> "", excluded |-> {}, value |-> 0]

(***************************************************************************)
(* The state machine.                                                      *)
(***************************************************************************)
Init ==
    /\ csv \in Files
    /\ pre = csv
    /\ batch = <<>>
    /\ result = <<>>
    /\ wrote = "skipped"
    /\ op = "none"
    /\ prev = "none"
    /\ alloc = NoCall
    /\ running = {}
    /\ orch = Idle
    /\ containers = {}
    /\ calls = <<>>

\* a caller hands a batch to ensure_assignments
EnsureAssignments ==
    /\ op = "none"
    /\ \E b \in Batches :
         \E r \in {ensure_assignments(b, csv)} :
             /\ csv' = r.file
             /\ pre' = csv
             /\ batch' = b
             /\ result' = r.result
             /\ wrote' = r.wrote
    /\ op' = "ensure"
    /\ prev' = op
    /\ UNCHANGED <<containers, alloc, running, orch, calls>>

\* read_students_csv(csv_file, update_if_changed=True): the roster is loaded
\* and handed whole to ensure_assignments
ReadStudentsCsv ==
    /\ \E r \in {IF ReadFails(csv)
                 THEN [result |-> <<>>, file |-> csv, wrote |-> "skipped"]
                 ELSE ensure_assignments(ParseRows(csv), csv)} :
           /\ csv' = r.file
           /\ pre' = csv
           /\ batch' = ParseRows(csv)
           /\ result' = r.result
           /\ wrote' = r.wrote
    /\ op' = "read"
    /\ prev' = op
    /\ UNCHANGED <<containers, alloc, running, orch, calls>>

Next == EnsureAssignments \/ ReadStudentsCsv

Spec == Init /\ [][Next]_vars

(***************************************************************************)
(* The allocators called on their own.                                     *)
(***************************************************************************)
PortSpan == 6     \* ports from 2222 on that an excluded set may hold

AllocIds ==
    {"student001", "student004", "student421", "student227", "student213"}

\* excluded sets of auto_assign_port: any set of ports around the floor
PortSets == SUBSET ((BasePort - 2)..(BasePort + PortSpan - 1))

AllSubnets == 1..SubnetMod

\* excluded sets of calculate_subnet_id: sets around the natural subnets of
\* AllocIds and around the wrap from 254 to 1, and sets that leave at most
\* four values free, with and without values outside 1..254
SubnetSets ==
    (SUBSET {1, 2, 183, 184, 185, 253, 254})
        \cup {AllSubnets \ s : s \in SUBSET {1, 2, 184, 254}}
        \cup {(AllSubnets \ s) \cup {0, 255, 300} : s \in SUBSET {183}}

rosterVars == <<csv, pre, batch, result, wrote, op, prev>>

InitAlloc ==
    /\ csv = NoFile
    /\ pre = csv
    /\ batch = <<>>
    /\ result = <<>>
    /\ wrote = "skipped"
    /\ op = "none"
    /\ prev = "none"
    /\ alloc = NoCall
    /\ running = {}
    /\ orch = Idle
    /\ containers = {}
    /\ calls = <<>>

\* auto_assign_port(existing_ports): no file is opened
AutoAssignPort ==
    /\ \E excluded \in PortSets :
          alloc' = [fn |-> "auto_assign_port", student_id |-> "",
                    excluded |-> excluded,
                    value |-> auto_assign_port(excluded)]
    /\ UNCHANGED <<containers, rosterVars, running, orch, calls>>

\* calculate_subnet_id(student_id, used_subnets): no file is opened
CalculateSubnetId ==
    /\ \E student_id \in AllocIds : \E excluded \in SubnetSets :
          alloc' = [fn |-> "calculate_subnet_id", student_id |-> student_id,
                    excluded |-> excluded,
                    value |-> calculate_subnet_id(student_id, excluded)]
    /\ UNCHANGED <<containers, rosterVars, running, orch, calls>>

NextAlloc == AutoAssignPort \/ CalculateSubnetId

SpecAlloc == InitAlloc /\ [][NextAlloc]_vars

(***************************************************************************)
(* ensure_assignments on a roster that uses every subnet of 1..254.        *)
(***************************************************************************)
\* row i of a class of 254 students, holding subnet i
FullRow(i, ports) ==
    [student_id |-> "class" \o ToString(i),
     student_name |-> DiskName,
     port |-> IF ports THEN StrOf(BasePort + i - 1) ELSE <<>>,
     subnet_id |-> StrOf(i)]

FullFiles ==
    {[exists |-> TRUE, header |-> DefaultFieldnames,
      rows |-> [i \in 1..SubnetMod |-> FullRow(i, ports)]] :
        ports \in BOOLEAN}

InitFull ==
    /\ csv \in FullFiles
    /\ pre = csv
    /\ batch = <<>>
    /\ result = <<>>
    /\ wrote = "skipped"
    /\ op = "none"
    /\ prev = "none"
    /\ alloc = NoCall
    /\ running = {}
    /\ orch = Idle
    /\ containers = {}
    /\ calls = <<>>

NextFull == EnsureAssignments

SpecFull == InitFull /\ [][NextFull]_vars

(***************************************************************************)
(* The environment orchestrator.  A runtime command either exits with      *)
(* status 0 or makes run_command raise CalledProcessError; cmd_ok tells    *)
(* which.  An operation yields whether it reported success, the commands   *)
(* it issued, whether it looked the student up in the roster, and (when it *)
(* is given the roster file) the file afterwards.                          *)
(***************************************************************************)
\* the student ids of the rows of a roster file
RowIds(f) ==
    IF ReadFails(f) THEN {}
    ELSE {f.rows[i].student_id : i \in 1..Len(f.rows)}

ProjectName(student_id) == "cyber-lab-" \o student_id

\* how the command of an operation ended: it returned, it raised
\* CalledProcessError, or no command was run
ExitOf(cmd_ok) == IF cmd_ok THEN "ok" ELSE "error"

\* read_students_csv(csv_file), update_if_changed left at True
read_students_csv(f) ==
    IF ReadFails(f)
    THEN [result |-> <<>>, file |-> f, wrote |-> "skipped"]
    ELSE ensure_assignments(ParseRows(f), f)

\* variant: the subnet is always derived from the hash of the student_id
get_student_env_hashed(student_id, student_name, port, subnet_id, f) ==
    [STUDENT_ID |-> student_id,
     STUDENT_NAME |-> student_name,
     SSH_PORT |-> StrOf(port),
     SUBNET_ID |-> StrOf(calculate_subnet_id(student_id, {})),
     NETWORK_NAME |-> ProjectName(student_id)]

get_student_env(student_id, student_name, port, subnet_id, f) ==
    [STUDENT_ID |-> student_id,
     STUDENT_NAME |-> student_name,
     SSH_PORT |-> StrOf(port),
     SUBNET_ID |-> StrOf(IF subnet_id = None
                         THEN calculate_subnet_id(student_id,
                                                  get_used_subnets(f))
                         ELSE subnet_id),
     NETWORK_NAME |-> ProjectName(student_id)]

\* get_student_from_csv: the first record of the student in the roster as
\* read_students_csv returns it, or None
FirstRecord(student_id, r) ==
    LET rows == {i \in 1..Len(r.result) :
                    r.result[i].student_id = student_id}
    IN  [found |-> rows # {},
         student |-> IF rows # {}
                     THEN r.result[CHOOSE i \in rows :
                                      \A j \in rows : i <= j]
                     ELSE [student_id |-> student_id, student_name |-> "",
                           port |-> 0, subnet_id |-> None],
         file |-> r.file]

get_student_from_csv(student_id, f) ==
    FirstRecord(student_id, Value(read_students_csv(f)))

spin_up_student(student_id, student_name, port, subnet_id, f, cmd_ok) ==
    [ok |-> cmd_ok,
     cmds |-> <<[verb |-> "up", project |-> ProjectName(student_id),
                 env |-> get_student_env(student_id, student_name, port,
                                         subnet_id, f)]>>,
     lookup |-> FALSE,
     exit |-> ExitOf(cmd_ok),
     file |-> f]

\* variant: the command issued whether the student was found or not
SpinDownFound_unconditional(student_id, g, cmd_ok) ==
    [ok |-> cmd_ok,
     cmds |-> <<[verb |-> "down",
                 project |-> ProjectName(student_id),
                 env |-> get_student_env(student_id,
                             g.student.student_name,
                             g.student.port, g.student.subnet_id,
                             g.file)]>>,
     lookup |-> TRUE,
     exit |-> ExitOf(cmd_ok),
     file |-> g.file]

\* spin_down_student once the lookup g of the student has returned
SpinDownFound(student_id, g, cmd_ok) ==
    IF ~g.found
    THEN [ok |-> FALSE, cmds |-> <<>>, lookup |-> TRUE, exit |-> "none",
          file |-> g.file]
    ELSE [ok |-> cmd_ok,
          cmds |-> <<[verb |-> "down",
                      project |-> ProjectName(student_id),
                      env |-> get_student_env(student_id,
                                  g.student.student_name,
                                  g.student.port, g.student.subnet_id,
                                  g.file)]>>,
          lookup |-> TRUE,
          exit |-> ExitOf(cmd_ok),
          file |-> g.file]

spin_down_student(student_id, f, cmd_ok) ==
    SpinDownFound(student_id, Value(get_student_from_csv(student_id, f)),
                  cmd_ok)

force_remove_student_containers_by_roster(student_id, cmd_ok) ==
    IF student_id \notin RowIds(csv)
    THEN [ok |-> FALSE, cmds |-> <<>>, lookup |-> TRUE, exit |-> "none"]
    ELSE [ok |-> cmd_ok,
          cmds |-> <<[verb |-> "down", project |-> ProjectName(student_id),
                      env |-> [STUDENT_ID |-> student_id,
                               NETWORK_NAME |-> ProjectName(student_id)]]>>,
          lookup |-> TRUE,
          exit |-> ExitOf(cmd_ok)]

force_remove_student_containers(student_id, cmd_ok) ==
    [ok |-> cmd_ok,
     cmds |-> <<[verb |-> "down", project |-> ProjectName(student_id),
                 env |-> [STUDENT_ID |-> student_id,
                          NETWORK_NAME |-> ProjectName(student_id)]]>>,
     lookup |-> FALSE,
     exit |-> ExitOf(cmd_ok)]

\* the containers of a student, named {service}-{student_id}; a name is the
\* sequence of the parts that '-' separates
Services == {<<"kali", "jump">>, <<"ubuntu", "target1">>,
             <<"ubuntu", "target2">>}

ContainerNames(student_id) == {s \o <<student_id>> : s \in Services}

\* any(service in name ...): the name holds 'kali-jump-' (or another
\* service prefix)
HasService(name) ==
    \E i \in 1..(Len(name) - 2) : SubSeq(name, i, i + 1) \in Services

\* get_running_students: the student ids recovered from the names that
\* docker ps lists, or the empty set when the command fails
get_running_students(names, cmd_ok) ==
    IF cmd_ok
    THEN {name[Len(name)] :
            name \in {n \in names : /\ HasService(n)
                                    /\ Len(n) >= 2
                                    /\ Len(n[Len(n)]) >= 3}}
    ELSE {}

\* the names docker ps lists when the students of ids have containers
Containers(ids) == UNION {ContainerNames(id) : id \in ids}

\* what an operation on one student did, as the caller sees it
Attempt(row, student_id, kind, r) ==
    [row |-> row, student_id |-> student_id, kind |-> kind, ok |-> r.ok,
     cmds |-> r.cmds, lookup |-> r.lookup, exit |-> r.exit]

to_add(expected_ids, running_ids) == expected_ids \ running_ids

to_remove_all(expected_ids, running_ids) == running_ids

to_remove(expected_ids, running_ids) == running_ids \ expected_ids

\* reconcile_with_csv from expected_students on: ensured is what the second
\* ensure_assignments returned
ReconcileStudents(ensured, names, list_ok, failing) ==
    LET students == ensured.result
        expected_ids == {students[i].student_id : i \in 1..Len(students)}
        running_ids == Value(get_running_students(names, list_ok))
        removed ==
            {Attempt(0, id, "remove",
                     force_remove_student_containers(id, id \notin failing)) :
                id \in to_remove(expected_ids, running_ids)}
        added ==
            {Attempt(0, id, "add",
                     spin_up_student(id,
                         student_lookup(students, id).student_name,
                         student_lookup(students, id).port,
                         student_lookup(students, id).subnet_id,
                         ensured.file, id \notin failing)) :
                id \in to_add(expected_ids, running_ids)}
    IN  [ret |-> \A a \in removed \cup added : a.ok,
         file |-> ensured.file, students |-> students,
         running_ids |-> running_ids,
         attempts |-> removed \cup added]

\* reconcile_with_csv once the roster is loaded
ReconcileLoaded(loaded, names, list_ok, failing) ==
    IF loaded.result = <<>>
    THEN [ret |-> FALSE, file |-> loaded.file, students |-> <<>>,
          running_ids |-> {}, attempts |-> {}]
    ELSE ReconcileStudents(
             Value(ensure_assignments(loaded.result, loaded.file)),
             names, list_ok, failing)

\* reconcile_with_csv(csv_file): names are the containers of the runtime,
\* list_ok the outcome of docker ps, failing the students whose start or
\* stop command fails
reconcile_with_csv(f, names, list_ok, failing) ==
    ReconcileLoaded(Value(read_students_csv(f)), names, list_ok, failing)

\* the runtime after the attempts: a stop that succeeded leaves the student
\* without containers, a start that succeeded leaves it with containers
RuntimeAfter(ids, attempts) ==
    (ids \ {a.student_id : a \in {b \in attempts :
                                     b.ok /\ b.kind \in {"remove", "down"}}})
        \cup {a.student_id : a \in {b \in attempts :
                                       b.ok /\ b.kind \in {"add", "up"}}}

Outcome(ok) == IF ok THEN "success" ELSE "failure"

(***************************************************************************)
(* The orchestrator's state machine.                                       *)
(***************************************************************************)
MaxWorkers == 5     \* ThreadPoolExecutor(max_workers=5)

\* rosters of up to MaxRows students, assigned or not, or no roster at all
OrchFiles ==
    {f \in PlainFiles :
        \A i \in 1..Len(f.rows) :
            <<f.rows[i].port, f.rows[i].subnet_id>> \in {Unassigned, InRange}}
      \cup {NoFile}

\* a valid roster of one student more than the pool has workers
ClassFile ==
    [exists |-> TRUE, header |-> DefaultFieldnames,
     rows |-> [i \in 1..(MaxWorkers + 1) |-> FullRow(i, TRUE)]]

InitOrch ==
    /\ \/ csv \in OrchFiles /\ running \in SUBSET StudentIds
       \/ csv = ClassFile /\ running = {}
    /\ pre = csv
    /\ batch = <<>>
    /\ result = <<>>
    /\ wrote = "skipped"
    /\ op = "none"
    /\ prev = "none"
    /\ alloc = NoCall
    /\ orch = Idle
    /\ containers = {}
    /\ calls = <<>>

Reconcile ==
    /\ orch.name = "none"
    /\ \E list_ok \in BOOLEAN : \E failing \in SUBSET (running \cup RowIds(csv)) :
         \E r \in {reconcile_with_csv(csv, Containers(running), list_ok,
                                      failing)} :
             /\ csv' = r.file
             /\ pre' = csv
             /\ running' = RuntimeAfter(running, r.attempts)
             /\ orch' = [Idle EXCEPT !.name = "reconcile",
                                     !.before = running,
                                     !.students = r.students,
                                     !.running_ids = r.running_ids,
                                     !.attempts = r.attempts,
                                     !.ret = Outcome(r.ret)]
    /\ UNCHANGED <<containers, batch, result, wrote, op, prev, alloc, calls>>

SpinUpStudent ==
    /\ orch.name = "none"
    /\ \E s \in BatchRecords : \E cmd_ok \in BOOLEAN :
         \E r \in {spin_up_student(s.student_id, s.student_name, s.port,
                                   s.subnet_id, csv, cmd_ok)} :
             /\ csv' = r.file
             /\ pre' = csv
             /\ running' = RuntimeAfter(running,
                               {Attempt(0, s.student_id, "up", r)})
             /\ orch' = [Idle EXCEPT !.name = "spin_up_student",
                             !.students = <<s>>,
                             !.attempts = {Attempt(0, s.student_id, "up", r)},
                             !.ret = Outcome(r.ok)]
    /\ UNCHANGED <<containers, batch, result, wrote, op, prev, alloc, calls>>

SpinDownStudent ==
    /\ orch.name = "none"
    /\ \E student_id \in StudentIds : \E cmd_ok \in BOOLEAN :
         \E r \in {spin_down_student(student_id, csv, cmd_ok)} :
             /\ csv' = r.file
             /\ pre' = csv
             /\ running' = RuntimeAfter(running,
                               {Attempt(0, student_id, "down", r)})
             /\ orch' = [Idle EXCEPT !.name = "spin_down_student",
                             !.attempts = {Attempt(0, student_id, "down", r)},
                             !.ret = Outcome(r.ok)]
    /\ UNCHANGED <<containers, batch, result, wrote, op, prev, alloc, calls>>

ForceRemoveStudentContainers ==
    /\ orch.name = "none"
    /\ \E student_id \in StudentIds : \E cmd_ok \in BOOLEAN :
         \E r \in {force_remove_student_containers(student_id, cmd_ok)} :
             /\ running' = RuntimeAfter(running,
                               {Attempt(0, student_id, "remove", r)})
             /\ orch' = [Idle EXCEPT !.name = "force_remove",
                             !.attempts = {Attempt(0, student_id, "remove", r)},
                             !.ret = Outcome(r.ok)]
    /\ pre' = csv
    /\ UNCHANGED <<containers, csv, batch, result, wrote, op, prev, alloc, calls>>

GetRunningStudents ==
    /\ orch.name = "none"
    /\ \E cmd_ok \in BOOLEAN :
          orch' = [Idle EXCEPT !.name = "get_running_students",
                      !.before = running,
                      !.running_ids =
                          get_running_students(Containers(running), cmd_ok),
                      !.ret = Outcome(cmd_ok)]
    /\ pre' = csv
    /\ UNCHANGED <<containers, csv, batch, result, wrote, op, prev, alloc, running, calls>>

ClassOps == {"spin_up_class", "spin_down_class"}

\* the rows of the class whose operation was submitted
Started(o) == {a.row : a \in o.attempts} \cup o.inflight

\* spin_up_class / spin_down_class up to the point where the per-student
\* operations start: asked is the parallel argument, confirmed the answer
\* to _confirm_parallel_execution
ClassBegin ==
    /\ orch.name = "none"
    /\ \E name \in ClassOps : \E asked \in BOOLEAN : \E confirmed \in BOOLEAN :
         \E loaded \in {read_students_csv(csv)} :
            IF loaded.result = <<>>
            THEN /\ csv' = loaded.file
                 /\ orch' = [Idle EXCEPT !.name = name,
                                         !.ret = "failure"]
            ELSE \E ensured \in
                     {IF name = "spin_up_class"
                      THEN ensure_assignments(loaded.result, loaded.file)
                      ELSE loaded} :
                    /\ csv' = ensured.file
                    /\ orch' = [Idle EXCEPT !.name = name,
                                            !.parallel = asked /\ confirmed,
                                            !.students = ensured.result,
                                            !.ret = "pending"]
    /\ pre' = csv
    /\ UNCHANGED <<containers, batch, result, wrote, op, prev, alloc, running, calls>>

\* the next student of the list is handed to a free worker (parallel) or
\* the loop moves to it (sequential)
StartStudent ==
    /\ orch.name \in ClassOps
    /\ orch.ret = "pending"
    /\ Cardinality(orch.inflight) < (IF orch.parallel THEN MaxWorkers ELSE 1)
    /\ \E i \in 1..Len(orch.students) :
         /\ i \notin Started(orch)
         /\ \A j \in 1..(i - 1) : j \in Started(orch)
         /\ orch' = [orch EXCEPT !.inflight = @ \cup {i}]
    /\ UNCHANGED <<containers, csv, pre, batch, result, wrote, op, prev, alloc, running,
                   calls>>

\* the worker of a spin_down_student reaches, through get_student_from_csv
\* and read_students_csv, the call of ensure_assignments
EnterEnsure ==
    /\ orch.name = "spin_down_class"
    /\ orch.ret = "pending"
    /\ ~ReadFails(csv)
    /\ \E i \in orch.inflight \ orch.ensuring :
         orch' = [orch EXCEPT !.ensuring = @ \cup {i}]
    /\ UNCHANGED <<containers, csv, pre, batch, result, wrote, op, prev, alloc,
                   running, calls>>

\* the operation of one student runs and returns
FinishStudent ==
    /\ orch.name \in ClassOps
    /\ orch.ret = "pending"
    /\ \E i \in orch.inflight : \E cmd_ok \in BOOLEAN :
         /\ (orch.name = "spin_down_class" /\ ~ReadFails(csv))
                => i \in orch.ensuring
         /\ LET s == orch.students[i]
                kind == IF orch.name = "spin_up_class" THEN "up" ELSE "down"
            IN  \E r \in {IF kind = "up"
                          THEN spin_up_student(s.student_id, s.student_name,
                                               s.port, s.subnet_id, csv, cmd_ok)
                          ELSE spin_down_student(s.student_id, csv, cmd_ok)} :
                   /\ csv' = r.file
                   /\ running' = RuntimeAfter(running,
                                     {Attempt(i, s.student_id, kind, r)})
                   /\ orch' = [orch EXCEPT
                                 !.inflight = @ \ {i},
                                 !.ensuring = @ \ {i},
                                 !.attempts =
                                     @ \cup {Attempt(i, s.student_id, kind, r)}]
    /\ UNCHANGED <<containers, pre, batch, result, wrote, op, prev, alloc, calls>>

success_count_attempted(attempts) == Cardinality(attempts)

\* success_count: the operations that returned True
success_count(attempts) == Cardinality({a \in attempts : a.ok})

\* return success_count == len(students)
ClassEnd ==
    /\ orch.name \in ClassOps
    /\ orch.ret = "pending"
    /\ orch.inflight = {}
    /\ Started(orch) = 1..Len(orch.students)
    /\ orch' = [orch EXCEPT
                  !.ret = Outcome(success_count(orch.attempts)
                                    = Len(orch.students))]
    /\ UNCHANGED <<containers, csv, pre, batch, result, wrote, op, prev, alloc, running,
                   calls>>

NextOrch ==
    \/ Reconcile
    \/ SpinUpStudent
    \/ SpinDownStudent
    \/ ForceRemoveStudentContainers
    \/ GetRunningStudents
    \/ ClassBegin
    \/ StartStudent
    \/ EnterEnsure
    \/ FinishStudent
    \/ ClassEnd

SpecOrch == InitOrch /\ [][NextOrch]_vars

(***************************************************************************)
(* Two invocations of ensure_assignments on one roster file, with nothing  *)
(* that serializes them.  An invocation reads the file and resolves its    *)
(* batch (Load), then reads the file again, merges its records in and      *)
(* writes it (Write); calls[p] is the state of invocation p.               *)
(***************************************************************************)
Procs == {1, 2}

RaceBatches ==
    {b \in Batches :
        /\ b # <<>>
        /\ \A i \in 1..Len(b) :
              <<b[i].port, b[i].subnet_id>> \in {<<0, None>>, <<2222, 183>>}}

RaceFiles ==
    {f \in PlainFiles :
        /\ Len(f.rows) <= 1
        /\ \A i \in 1..Len(f.rows) :
              <<f.rows[i].port, f.rows[i].subnet_id>> \in {Unassigned, InRange}}
      \cup {NoFile}

\* the writes made to the file so far
Writes(c) == Cardinality({p \in Procs : c[p].pc = "done" /\ c[p].wrote # "skipped"})

InitRace ==
    /\ csv \in RaceFiles
    /\ pre = csv
    /\ calls \in {[p \in Procs |->
                     [pc |-> "idle", students |-> b[p],
                      final |-> LoopStart(NoFile), seen |-> 0,
                      wrote |-> "skipped"]] :
                  b \in [Procs -> RaceBatches]}
    /\ batch = <<>>
    /\ result = <<>>
    /\ wrote = "skipped"
    /\ op = "none"
    /\ prev = "none"
    /\ alloc = NoCall
    /\ running = {}
    /\ orch = Idle
    /\ containers = {}

\* the records an invocation writes: those it resolved when it loaded
Resolve_reloaded(final, students, f) ==
    Loop(students, 1, Value(Ownership(Value(ParseRows(f)))),
         Value(LoopStart(f)))

Resolve(final, students, f) == final

\* the baseline is read and the batch resolved against it
RaceLoad ==
    \E p \in Procs :
        /\ calls[p].pc = "idle"
        /\ calls' = [calls EXCEPT
              ![p] = [@ EXCEPT
                 !.pc = "loaded",
                 !.seen = Writes(calls),
                 !.final = Loop(calls[p].students, 1,
                                Value(Ownership(Value(ParseRows(csv)))),
                                Value(LoopStart(csv)))]]
        /\ UNCHANGED <<containers, rosterVars, alloc, running, orch>>

\* if changes_made: the file is read again, merged and written
RaceWrite ==
    \E p \in Procs :
        /\ calls[p].pc = "loaded"
        /\ \E final \in {Resolve(calls[p].final, calls[p].students, csv)} :
             IF final.changes_made
             THEN \E written \in
                      {write_students_csv(csv,
                           MergeStudents(Value(ParseRows(csv)),
                                         final.updated_students))} :
                     /\ csv' = written.file
                     /\ calls' = [calls EXCEPT
                           ![p] = [@ EXCEPT
                              !.pc = "done",
                              !.final = final,
                              !.wrote = IF written.ok THEN "ok"
                                        ELSE "failed"]]
             ELSE /\ csv' = csv
                  /\ calls' = [calls EXCEPT
                        ![p] = [@ EXCEPT !.pc = "done", !.final = final]]
        /\ UNCHANGED <<containers, pre, batch, result, wrote, op, prev, alloc, running,
                       orch>>

\* once the invocations have returned, the whole roster is reprocessed by
\* one read_students_csv
RaceHeal ==
    /\ \A p \in Procs : calls[p].pc = "done"
    /\ op = "none"
    /\ ReadStudentsCsv

NextRace == RaceLoad \/ RaceWrite

SpecRace == InitRace /\ [][NextRace]_vars

\* the interleaved invocations followed by the reprocessing of the roster
NextHeal == RaceLoad \/ RaceWrite \/ RaceHeal

SpecHeal == InitRace /\ [][NextHeal]_vars

(***************************************************************************)
(* A new class: rosters of students of distinct ids, none of them with a   *)
(* port or a subnet, loaded with read_students_csv.                        *)
(***************************************************************************)
NewRow(id) ==
    [student_id |-> id, student_name |-> DiskName, port |-> <<>>,
     subnet_id |-> <<>>]

\* the sequences of one or more distinct students
Classes ==
    {ids \in UNION {[1..n -> AllocIds] : n \in 1..Cardinality(AllocIds)} :
        \A i, j \in 1..Len(ids) : i # j => ids[i] # ids[j]}

NewClassFiles ==
    {[exists |-> TRUE, header |-> DefaultFieldnames,
      rows |-> [i \in 1..Len(ids) |-> NewRow(ids[i])]] : ids \in Classes}

InitClass ==
    /\ csv \in NewClassFiles
    /\ pre = csv
    /\ batch = <<>>
    /\ result = <<>>
    /\ wrote = "skipped"
    /\ op = "none"
    /\ prev = "none"
    /\ alloc = NoCall
    /\ running = {}
    /\ orch = Idle
    /\ containers = {}
    /\ calls = <<>>

NextClass == ReadStudentsCsv

SpecClass == InitClass /\ [][NextClass]_vars

(***************************************************************************)
(* The roster load: files whose port and subnet_id cells hold any kind of  *)
(* text, read by read_students_csv, get_used_ports and get_used_subnets.   *)
(***************************************************************************)
\* cell texts: empty, blank, a port, a padded subnet, zero, a negative
\* number, a word, and a superscript digit
CellTexts ==
    {<<>>, <<" ">>, <<"2", "2", "2", "2">>, <<" ", "7", " ">>, <<"0">>,
     <<"-", "1">>, <<"x">>, <<"^2">>}

LoadIds == <<"student001", "student004">>

\* rosters of one or two rows with the default header
TextFiles ==
    {[exists |-> TRUE, header |-> DefaultFieldnames,
      rows |-> [i \in 1..Len(cells) |->
                  [student_id |-> LoadIds[i], student_name |-> DiskName,
                   port |-> cells[i][1], subnet_id |-> cells[i][2]]]] :
        cells \in UNION {[1..n -> CellTexts \X CellTexts] :
                            n \in 0..Len(LoadIds)}}

LoadFiles == TextFiles \cup BareFiles \cup MisnamedFiles \cup {NoFile}

InitLoad ==
    /\ csv \in LoadFiles
    /\ pre = csv
    /\ batch = <<>>
    /\ result = <<>>
    /\ wrote = "skipped"
    /\ op = "none"
    /\ prev = "none"
    /\ alloc = NoCall
    /\ running = {}
    /\ orch = Idle
    /\ containers = {}
    /\ calls = <<>>

\* read_students_csv(csv_file, update_if_changed=False)
LoadRoster ==
    /\ result' = ParseRows(csv)
    /\ pre' = csv
    /\ batch' = <<>>
    /\ wrote' = "skipped"
    /\ op' = "load"
    /\ prev' = op
    /\ alloc' = NoCall
    /\ UNCHANGED <<containers, csv, running, orch, calls>>

GetUsedPorts ==
    /\ alloc' = [NoCall EXCEPT !.fn = "get_used_ports",
                               !.value = get_used_ports(csv)]
    /\ pre' = csv
    /\ batch' = <<>>
    /\ result' = <<>>
    /\ wrote' = "skipped"
    /\ op' = "used"
    /\ prev' = op
    /\ UNCHANGED <<containers, csv, running, orch, calls>>

GetUsedSubnets ==
    /\ alloc' = [NoCall EXCEPT !.fn = "get_used_subnets",
                               !.value = get_used_subnets(csv)]
    /\ pre' = csv
    /\ batch' = <<>>
    /\ result' = <<>>
    /\ wrote' = "skipped"
    /\ op' = "used"
    /\ prev' = op
    /\ UNCHANGED <<containers, csv, running, orch, calls>>

\* a caller hands one student without assignments to ensure_assignments,
\* whatever the text of the roster
EnsureNewStudent ==
    /\ op = "none"
    /\ \E id \in StudentIds :
         \E b \in {<<[student_id |-> id, student_name |-> BatchName,
                      port |-> 0, subnet_id |-> None]>>} :
             \E r \in {ensure_assignments(b, csv)} :
                 /\ csv' = r.file
                 /\ batch' = b
                 /\ result' = r.result
                 /\ wrote' = r.wrote
    /\ pre' = csv
    /\ op' = "ensure"
    /\ prev' = op
    /\ alloc' = NoCall
    /\ UNCHANGED <<containers, running, orch, calls>>

NextLoad ==
    \/ LoadRoster
    \/ ReadStudentsCsv
    \/ GetUsedPorts
    \/ GetUsedSubnets
    \/ EnsureNewStudent

SpecLoad == InitLoad /\ [][NextLoad]_vars

(***************************************************************************)
(* The runtime by container.  docker ps -a lists every container, running  *)
(* or only created; a docker compose up that fails leaves any part of the  *)
(* student's containers behind.  The operations follow one another.        *)
(***************************************************************************)
RuntimeIds == <<"student004", "s1">>

RuntimeRow(i, assigned) ==
    [student_id |-> RuntimeIds[i], student_name |-> DiskName,
     port |-> IF assigned THEN StrOf(BasePort + i - 1) ELSE <<>>,
     subnet_id |-> IF assigned THEN StrOf(i) ELSE <<>>]

\* rosters of students, all assigned or none, in any order, or no roster
RuntimeFiles ==
    {[exists |-> TRUE, header |-> DefaultFieldnames,
      rows |-> [k \in 1..Len(order) |-> RuntimeRow(order[k], assigned)]] :
        order \in {<<>>, <<1>>, <<2>>, <<1, 2>>, <<2, 1>>},
        assigned \in BOOLEAN}
      \cup {NoFile}

\* the students that have a container in names
Having(names) ==
    {RuntimeIds[i] :
        i \in {j \in 1..Len(RuntimeIds) :
                  ContainerNames(RuntimeIds[j]) \cap names # {}}}

\* the containers a docker compose up leaves for the student: all of them
\* when it succeeds, any of them but not all when it fails
LeftByUp(student_id, cmd_ok) ==
    IF cmd_ok
    THEN {ContainerNames(student_id)}
    ELSE SUBSET ContainerNames(student_id) \ {ContainerNames(student_id)}

\* the containers after the attempts of an operation: part are the services
\* a failed start got to create
ContainersAfter(names, attempts, part) ==
    LET removed == {a.student_id :
                       a \in {b \in attempts : b.ok /\ b.kind = "remove"}}
        added == {a.student_id :
                     a \in {b \in attempts :
                               b.ok /\ b.kind \in {"add", "up"}}}
        failed == {a.student_id :
                      a \in {b \in attempts :
                                ~b.ok /\ b.kind \in {"add", "up"}}}
    IN  (names \ Containers(removed))
            \cup Containers(added)
            \cup {s \o <<id>> : s \in part, id \in failed}

\* ensure_assignments has returned; docker ps -a has returned
Ensured == [verb |-> "ensure", project |-> "", env |-> <<>>]

Listed == [verb |-> "list", project |-> "", env |-> <<>>]

\* the orders in which a for loop may go through a set
Orders(S) ==
    {q \in [1..Cardinality(S) -> S] :
        \A i, j \in 1..Cardinality(S) : i # j => q[i] # q[j]}

AttemptIds(attempts, kind) ==
    {a.student_id : a \in {b \in attempts : b.kind = kind}}

\* the command of the attempt of one kind on one student
CommandOf(attempts, kind, id) ==
    (CHOOSE a \in attempts : a.kind = kind /\ a.student_id = id).cmds[1]

\* the calls in the order read_students_csv makes them
ReadEvents(f) == IF ReadFails(f) THEN <<>> ELSE <<Ensured>>

\* variant: the missing students are started before the extra ones are
\* removed
ReconcileEvents_add_first(f, r, removing, adding) ==
    ReadEvents(f)
        \o (IF r.students = <<>> THEN <<>> ELSE <<Ensured, Listed>>)
        \o [k \in 1..Len(adding) |-> CommandOf(r.attempts, "add", adding[k])]
        \o [k \in 1..Len(removing) |->
               CommandOf(r.attempts, "remove", removing[k])]

\* the calls of reconcile_with_csv in the order it makes them: the load,
\* ensure_assignments, the listing, the loop over to_remove and the loop
\* over to_add; removing and adding are the orders of the two loops
ReconcileEvents(f, r, removing, adding) ==
    ReadEvents(f)
        \o (IF r.students = <<>> THEN <<>> ELSE <<Ensured, Listed>>)
        \o [k \in 1..Len(removing) |->
               CommandOf(r.attempts, "remove", removing[k])]
        \o [k \in 1..Len(adding) |-> CommandOf(r.attempts, "add", adding[k])]

\* a roster, and the containers of the students started under an earlier
\* roster
InitRuntime ==
    /\ csv \in RuntimeFiles
    /\ pre = csv
    /\ batch = <<>>
    /\ result = <<>>
    /\ wrote = "skipped"
    /\ op = "none"
    /\ prev = "none"
    /\ alloc = NoCall
    /\ \E ids \in SUBSET {RuntimeIds[i] : i \in 1..Len(RuntimeIds)} :
          running = ids /\ containers = Containers(ids)
    /\ orch = Idle
    /\ calls = <<>>

RuntimeSpinUp ==
    /\ orch.ops < MaxOps
    /\ \E i \in 1..Len(ParseRows(csv)) : \E cmd_ok \in BOOLEAN :
         \E st \in {ParseRows(csv)[i]} :
         \E left \in LeftByUp(st.student_id, cmd_ok) :
         \E r \in {spin_up_student(st.student_id, st.student_name, st.port,
                                   st.subnet_id, csv, cmd_ok)} :
             /\ containers' = containers \cup left
             /\ running' = Having(containers \cup left)
             /\ orch' = [Idle EXCEPT
                            !.name = "spin_up_student",
                            !.attempts = {Attempt(i, st.student_id, "up", r)},
                            !.ret = Outcome(r.ok),
                            !.before = Having(containers),
                            !.ops = orch.ops + 1]
    /\ UNCHANGED <<csv, pre, batch, result, wrote, op, prev, alloc, calls>>

RuntimeRemove ==
    /\ orch.ops < MaxOps
    /\ \E i \in 1..Len(RuntimeIds) : \E cmd_ok \in BOOLEAN :
         \E r \in {force_remove_student_containers(RuntimeIds[i], cmd_ok)} :
         \E after \in {IF cmd_ok
                       THEN containers \ ContainerNames(RuntimeIds[i])
                       ELSE containers} :
             /\ containers' = after
             /\ running' = Having(after)
             /\ orch' = [Idle EXCEPT
                            !.name = "force_remove_student_containers",
                            !.attempts = {Attempt(0, RuntimeIds[i],
                                                  "remove", r)},
                            !.ret = Outcome(r.ok),
                            !.before = Having(containers),
                            !.ops = orch.ops + 1]
    /\ UNCHANGED <<csv, pre, batch, result, wrote, op, prev, alloc, calls>>

RuntimeList ==
    /\ orch.ops < MaxOps
    /\ \E cmd_ok \in BOOLEAN :
         orch' = [Idle EXCEPT
                     !.name = "get_running_students",
                     !.running_ids = get_running_students(containers, cmd_ok),
                     !.ret = Outcome(cmd_ok),
                     !.before = Having(containers),
                     !.ops = orch.ops + 1]
    /\ UNCHANGED <<csv, pre, batch, result, wrote, op, prev, alloc, running,
                   calls, containers>>

RuntimeReconcile ==
    /\ orch.ops < MaxOps
    /\ \E loaded \in {read_students_csv(csv)} :
         IF loaded.result = <<>>
         THEN /\ csv' = loaded.file
              /\ UNCHANGED <<containers, running>>
              /\ orch' = [Idle EXCEPT !.name = "reconcile",
                                      !.ret = "failure",
                                      !.before = Having(containers),
                                      !.ops = orch.ops + 1,
                                      !.events = ReadEvents(csv)]
         ELSE \E ensured \in {ensure_assignments(loaded.result,
                                                 loaded.file)} :
              \E list_ok \in BOOLEAN :
              \E failing \in SUBSET (RowIds(csv) \cup Having(containers)) :
              \E r \in {ReconcileStudents(ensured, containers, list_ok,
                                          failing)} :
              \E part \in IF \E a \in r.attempts : ~a.ok /\ a.kind = "add"
                          THEN SUBSET Services \ {Services}
                          ELSE {{}} :
              \E after \in {ContainersAfter(containers, r.attempts, part)} :
              \E removing \in Orders(AttemptIds(r.attempts, "remove")) :
              \E adding \in Orders(AttemptIds(r.attempts, "add")) :
                /\ csv' = r.file
                /\ containers' = after
                /\ running' = Having(after)
                /\ orch' = [Idle EXCEPT !.name = "reconcile",
                                        !.students = r.students,
                                        !.running_ids = r.running_ids,
                                        !.attempts = r.attempts,
                                        !.ret = Outcome(r.ret),
                                        !.before = Having(containers),
                                        !.ops = orch.ops + 1,
                                        !.events = ReconcileEvents(
                                            csv, r, removing, adding)]
    /\ pre' = csv
    /\ UNCHANGED <<batch, result, wrote, op, prev, alloc, calls>>

\* spin_up_single_student(student_id, csv_file)
RuntimeSpinUpSingle ==
    /\ orch.ops < MaxOps
    /\ \E i \in 1..Len(RuntimeIds) : \E cmd_ok \in BOOLEAN :
         \E g \in {get_student_from_csv(RuntimeIds[i], csv)} :
           IF ~g.found
           THEN /\ csv' = g.file
                /\ UNCHANGED <<containers, running>>
                /\ orch' = [Idle EXCEPT !.name = "spin_up_single_student",
                                        !.ret = "failure",
                                        !.before = Having(containers),
                                        !.ops = orch.ops + 1,
                                        !.events = ReadEvents(csv)]
           ELSE \E e \in {ensure_assignments(<<g.student>>, g.file)} :
                \E u \in {spin_up_student(e.result[1].student_id,
                                          e.result[1].student_name,
                                          e.result[1].port,
                                          e.result[1].subnet_id,
                                          e.file, cmd_ok)} :
                \E left \in LeftByUp(RuntimeIds[i], cmd_ok) :
                  /\ csv' = e.file
                  /\ containers' = containers \cup left
                  /\ running' = Having(containers \cup left)
                  /\ orch' = [Idle EXCEPT
                                 !.name = "spin_up_single_student",
                                 !.students = e.result,
                                 !.attempts = {Attempt(0, RuntimeIds[i],
                                                       "up", u)},
                                 !.ret = Outcome(u.ok),
                                 !.before = Having(containers),
                                 !.ops = orch.ops + 1,
                                 !.events = ReadEvents(csv) \o <<Ensured>>
                                                \o u.cmds]
    /\ pre' = csv
    /\ UNCHANGED <<batch, result, wrote, op, prev, alloc, calls>>

\* recreate_student(student_id, csv_file): at_default tells whether csv_file
\* is the path students.csv, the file that spin_down_student(student_id)
\* reads; when it is not, no file is at that path
RuntimeRecreate ==
    /\ orch.ops < MaxOps
    /\ \E i \in 1..Len(RuntimeIds) : \E at_default \in BOOLEAN :
       \E down_ok \in BOOLEAN : \E up_ok \in BOOLEAN :
         \E g \in {get_student_from_csv(RuntimeIds[i], csv)} :
           IF ~g.found
           THEN /\ csv' = g.file
                /\ UNCHANGED <<containers, running>>
                /\ orch' = [Idle EXCEPT !.name = "recreate_student",
                                        !.ret = "failure",
                                        !.before = Having(containers),
                                        !.ops = orch.ops + 1,
                                        !.events = ReadEvents(csv)]
           ELSE \E e \in {ensure_assignments(<<g.student>>, g.file)} :
                \E d \in {spin_down_student(RuntimeIds[i],
                              IF at_default THEN e.file ELSE NoFile,
                              down_ok)} :
                \E file \in {IF at_default THEN d.file ELSE e.file} :
                \E u \in {spin_up_student(e.result[1].student_id,
                                          e.result[1].student_name,
                                          e.result[1].port,
                                          e.result[1].subnet_id,
                                          file, up_ok)} :
                \E left \in LeftByUp(RuntimeIds[i], up_ok) :
                \E kept \in {IF d.ok
                             THEN containers \ ContainerNames(RuntimeIds[i])
                             ELSE containers} :
                  /\ csv' = file
                  /\ containers' = kept \cup left
                  /\ running' = Having(kept \cup left)
                  /\ orch' = [Idle EXCEPT
                                 !.name = "recreate_student",
                                 !.students = e.result,
                                 !.attempts =
                                     {Attempt(0, RuntimeIds[i], "down", d),
                                      Attempt(0, RuntimeIds[i], "up", u)},
                                 !.ret = Outcome(u.ok),
                                 !.before = Having(containers),
                                 !.ops = orch.ops + 1,
                                 !.events =
                                     ReadEvents(csv) \o <<Ensured>>
                                         \o ReadEvents(IF at_default
                                                       THEN e.file
                                                       ELSE NoFile)
                                         \o d.cmds \o u.cmds]
    /\ pre' = csv
    /\ UNCHANGED <<batch, result, wrote, op, prev, alloc, calls>>

\* spin_up_class(csv_file, parallel=False): the students are started one
\* after the other in the order of the roster
RuntimeSpinUpClass ==
    /\ orch.ops < MaxOps
    /\ \E loaded \in {read_students_csv(csv)} :
         IF loaded.result = <<>>
         THEN /\ csv' = loaded.file
              /\ UNCHANGED <<containers, running>>
              /\ orch' = [Idle EXCEPT !.name = "spin_up_class",
                                      !.ret = "failure",
                                      !.before = Having(containers),
                                      !.ops = orch.ops + 1,
                                      !.events = ReadEvents(csv)]
         ELSE \E e \in {ensure_assignments(loaded.result, loaded.file)} :
              \E failing \in SUBSET RowIds(csv) :
              \E part \in IF failing = {}
                          THEN {{}}
                          ELSE SUBSET Services \ {Services} :
              \E ups \in {[k \in 1..Len(e.result) |->
                             spin_up_student(e.result[k].student_id,
                                 e.result[k].student_name,
                                 e.result[k].port, e.result[k].subnet_id,
                                 e.file,
                                 e.result[k].student_id \notin failing)]} :
              \E attempts \in {{Attempt(k, e.result[k].student_id, "up",
                                        ups[k]) : k \in 1..Len(ups)}} :
              \E after \in {ContainersAfter(containers, attempts, part)} :
                /\ csv' = e.file
                /\ containers' = after
                /\ running' = Having(after)
                /\ orch' = [Idle EXCEPT
                               !.name = "spin_up_class",
                               !.students = e.result,
                               !.attempts = attempts,
                               !.ret = Outcome(success_count(attempts)
                                                 = Len(e.result)),
                               !.before = Having(containers),
                               !.ops = orch.ops + 1,
                               !.events =
                                   ReadEvents(csv) \o <<Ensured>>
                                       \o [k \in 1..Len(ups) |->
                                              ups[k].cmds[1]]]
    /\ pre' = csv
    /\ UNCHANGED <<batch, result, wrote, op, prev, alloc, calls>>

NextRuntime ==
    \/ RuntimeSpinUp
    \/ RuntimeRemove
    \/ RuntimeList
    \/ RuntimeReconcile
    \/ RuntimeSpinUpSingle
    \/ RuntimeRecreate
    \/ RuntimeSpinUpClass

SpecRuntime == InitRuntime /\ [][NextRuntime]_vars

(***************************************************************************)
(* Properties of ensure_assignments.  Old is the roster as loaded before   *)
(* the last operation, New the roster as loaded after it; batch and result *)
(* are what the operation was given and what it returned.                  *)
(***************************************************************************)
Old == ParseRows(pre)
New == ParseRows(csv)

Ids(students) == {students[i].student_id : i \in 1..Len(students)}

PortsOf(students) == {students[i].port : i \in 1..Len(students)} \ {0}

SubnetsOf(students) ==
    {students[i].subnet_id : i \in 1..Len(students)} \ {None}

HoldersOfPort(students, p) ==
    {students[i].student_id :
        i \in {j \in 1..Len(students) : students[j].port = p}}

HoldersOfSubnet(students, s) ==
    {students[i].student_id :
        i \in {j \in 1..Len(students) : students[j].subnet_id = s}}

\* no two records of different students hold the same assigned port
PortConflictFree(students) ==
    \A p \in PortsOf(students) : Cardinality(HoldersOfPort(students, p)) = 1

\* no two records of different students hold the same assigned subnet
SubnetConflictFree(students) ==
    \A s \in SubnetsOf(students) :
        Cardinality(HoldersOfSubnet(students, s)) = 1

\* the records of the students that are not in ids
Outside(students, ids) == SelectSeq(students, LAMBDA s : s.student_id \notin ids)

Distinct(students) ==
    \A i, j \in 1..Len(students) :
        i # j => students[i].student_id # students[j].student_id

\* every row of the student keeps its position and its record
RowsKept(id) ==
    \A i \in 1..Len(Old) :
        Old[i].student_id = id => (i <= Len(New) /\ New[i] = Old[i])

\* the last record of the student in a list
LastOf(students, id) ==
    students[CHOOSE k \in 1..Len(students) :
                /\ students[k].student_id = id
                /\ \A l \in (k + 1)..Len(students) :
                      students[l].student_id # id]

\* a roster that is already valid: distinct student_ids, every port and
\* subnet assigned and pairwise distinct
ValidRoster(students) ==
    /\ Distinct(students)
    /\ \A i \in 1..Len(students) :
          students[i].port > 0 /\ students[i].subnet_id # None
    /\ \A i, j \in 1..Len(students) :
          i # j => /\ students[i].port # students[j].port
                   /\ students[i].subnet_id # students[j].subnet_id

\* C1: after a run of ensure_assignments on a roster in which no two
\* students shared a port, no two records of different students in the
\* resulting on-disk roster hold the same assigned port.
C1_PortsStayUnique ==
    (op # "none" /\ PortConflictFree(Old)) => PortConflictFree(New)

\* C2 as stated: after every run of ensure_assignments, with fewer than 254
\* subnets in use, no two records of different students in the resulting
\* on-disk roster hold the same assigned subnet_id.
C2_SubnetsUnique ==
    (op # "none" /\ Cardinality(SubnetsOf(Old)) < SubnetMod)
        => SubnetConflictFree(New)

\* C2: after a run of ensure_assignments with fewer than 254 subnets in use,
\* no two records of different students in the resulting on-disk roster
\* hold the same subnet_id, provided the roster before the run had no such
\* pair, or the run wrote the roster and the rows of the students outside
\* the batch had no such pair.
C2_SubnetsUniqueAmended ==
    (/\ op # "none"
     /\ Cardinality(SubnetsOf(Old)) < SubnetMod
     /\ \/ SubnetConflictFree(Old)
        \/ wrote = "ok" /\ SubnetConflictFree(Outside(Old, Ids(batch))))
        => SubnetConflictFree(New)

\* a run that wrote the roster and removed a subnet shared by two students
C2_Witness ==
    /\ op = "ensure"
    /\ wrote = "ok"
    /\ ~SubnetConflictFree(Old)
    /\ SubnetConflictFree(Outside(Old, Ids(batch)))
    /\ Cardinality(Ids(New)) >= 2
    /\ SubnetConflictFree(New)

\* C3: every record ensure_assignments returns has port >= 2222 and
\* 1 <= subnet_id <= 254, whatever positive port and subnet the input
\* record or the roster file carried.
C3_Ranges ==
    op # "none" =>
        \A k \in 1..Len(result) :
            result[k].port >= BasePort /\ result[k].subnet_id \in 1..SubnetMod

\* C4: a batch record whose port (resp. subnet_id) is positive and is
\* recorded on disk under its own student_id and under no other student
\* is returned with that port (resp. subnet_id), student_ids being distinct
\* in the batch and on disk.
C4_Stability ==
    (op # "none" /\ Distinct(batch) /\ Distinct(Old)) =>
        \A k \in 1..Len(batch) :
            /\ (/\ batch[k].port > 0
                /\ HoldersOfPort(Old, batch[k].port) = {batch[k].student_id})
                  => result[k].port = batch[k].port
            /\ (/\ batch[k].subnet_id # None
                /\ HoldersOfSubnet(Old, batch[k].subnet_id)
                      = {batch[k].student_id})
                  => result[k].subnet_id = batch[k].subnet_id

\* C5: when the on-disk roster is already valid (distinct student_ids, every
\* port and subnet assigned and pairwise distinct), reprocessing the full
\* roster returns the records as loaded, writes nothing and leaves the file
\* as it was; the roster being unchanged, the same holds for the next run.
C5_Idempotence ==
    (op = "read" /\ ~ReadFails(pre) /\ ValidRoster(Old))
        => (result = batch /\ result = Old /\ wrote = "skipped" /\ csv = pre)

\* a second reprocessing right after a first one, on a valid roster of at
\* least two students
C5_Witness ==
    /\ op = "read"
    /\ prev = "read"
    /\ ~ReadFails(pre)
    /\ ValidRoster(Old)
    /\ Len(Old) >= 2
    /\ wrote = "skipped"

\* C6: if the on-disk roster records the positive port p for student A only
\* and a batch record of another student B requests p, then B is returned
\* with a port other than p and other than every port recorded on disk,
\* and the rows of A, when A is not in the batch, are unchanged.
C6_PortCollisionRepair ==
    op # "none" =>
        \A k \in 1..Len(batch) : \A a \in Ids(Old) :
            (/\ batch[k].port > 0
             /\ a # batch[k].student_id
             /\ HoldersOfPort(Old, batch[k].port) = {a})
                => /\ result[k].port # batch[k].port
                   /\ result[k].port \notin PortsOf(Old)
                   /\ (a \notin Ids(batch) => RowsKept(a))

\* C7: if the on-disk roster records the subnet s for student A only and a
\* batch record of another student B requests s, then B is returned with a
\* subnet in 1..254 other than s and other than every subnet recorded on
\* disk, and the rows of A, when A is not in the batch, are unchanged.
C7_SubnetCollisionRepair ==
    op # "none" =>
        \A k \in 1..Len(batch) : \A a \in Ids(Old) :
            (/\ batch[k].subnet_id # None
             /\ a # batch[k].student_id
             /\ HoldersOfSubnet(Old, batch[k].subnet_id) = {a})
                => /\ result[k].subnet_id # batch[k].subnet_id
                   /\ result[k].subnet_id \in 1..SubnetMod
                   /\ result[k].subnet_id \notin SubnetsOf(Old)
                   /\ (a \notin Ids(batch) => RowsKept(a))

\* a batch record requested the subnet of a student outside the batch and
\* the roster was written
C7_Witness ==
    /\ op = "ensure"
    /\ wrote = "ok"
    /\ \E k \in 1..Len(batch) : \E a \in Ids(Old) \ Ids(batch) :
          /\ batch[k].subnet_id # None
          /\ HoldersOfSubnet(Old, batch[k].subnet_id) = {a}

\* C8: when the full roster is reprocessed and two different students share
\* a port (or a subnet) on disk, every holder of that value is returned
\* with, and recorded under, another value, and holders that are different
\* students end with different values.
C8_DuplicateRepair ==
    (op = "read" /\ ~ReadFails(pre)) =>
        /\ \A p \in PortsOf(Old) :
              Cardinality(HoldersOfPort(Old, p)) > 1 =>
                  /\ \A k \in 1..Len(batch) :
                        batch[k].port = p
                            => (result[k].port # p /\ New[k].port # p)
                  /\ \A k, l \in 1..Len(batch) :
                        (/\ batch[k].port = p
                         /\ batch[l].port = p
                         /\ batch[k].student_id # batch[l].student_id)
                            => /\ result[k].port # result[l].port
                               /\ New[k].port # New[l].port
        /\ \A s \in SubnetsOf(Old) :
              Cardinality(HoldersOfSubnet(Old, s)) > 1 =>
                  /\ \A k \in 1..Len(batch) :
                        batch[k].subnet_id = s
                            => /\ result[k].subnet_id # s
                               /\ New[k].subnet_id # s
                  /\ \A k, l \in 1..Len(batch) :
                        (/\ batch[k].subnet_id = s
                         /\ batch[l].subnet_id = s
                         /\ batch[k].student_id # batch[l].student_id)
                            => /\ result[k].subnet_id # result[l].subnet_id
                               /\ New[k].subnet_id # New[l].subnet_id

\* a reprocessing of a roster in which two students shared a port and a
\* subnet
C8_Witness ==
    /\ op = "read"
    /\ ~ReadFails(pre)
    /\ wrote = "ok"
    /\ \E p \in PortsOf(Old) : Cardinality(HoldersOfPort(Old, p)) > 1
    /\ \E s \in SubnetsOf(Old) : Cardinality(HoldersOfSubnet(Old, s)) > 1

\* C9: when ensure_assignments rewrites a roster whose header has the extra
\* column cohort, the rewritten file has the same header and every row
\* keeps the value it had in that column.
C9_RoundTrip ==
    (op # "none" /\ wrote = "ok" /\ "cohort" \in Range(pre.header)) =>
        /\ csv.header = pre.header
        /\ \A i \in 1..Len(pre.rows) :
              csv.rows[i]["cohort"] = pre.rows[i]["cohort"]

\* C10: when ensure_assignments persists, each on-disk row whose student_id
\* is in the batch is replaced in place by the updated batch record, the
\* batch records whose student_id is not on disk follow the existing rows
\* in batch order, and every other row keeps its position and its record.
C10_Merge ==
    (op # "none" /\ wrote = "ok") =>
        /\ Len(New) >= Len(Old)
        /\ \A i \in 1..Len(Old) :
              New[i] = IF Old[i].student_id \in Ids(batch)
                       THEN LastOf(result, Old[i].student_id)
                       ELSE Old[i]
        /\ SubSeq(New, Len(Old) + 1, Len(New))
              = SelectSeq(result, LAMBDA s : s.student_id \notin Ids(Old))

\* a write that replaced a row, kept a row and appended a record
C10_Witness ==
    /\ op = "ensure"
    /\ wrote = "ok"
    /\ \E i \in 1..Len(Old) : Old[i].student_id \in Ids(batch)
    /\ \E i \in 1..Len(Old) : Old[i].student_id \notin Ids(batch)
    /\ \E k \in 1..Len(result) : result[k].student_id \notin Ids(Old)

(***************************************************************************)
(* Properties of the allocators.                                           *)
(***************************************************************************)
\* the natural subnet of a student
NaturalSubnet(student_id) == (Md5Mod254(student_id) % SubnetMod) + 1

\* the k-th value met going from n upwards, 254 wrapping to 1
Onward(n, k) == ((n - 1 + k) % SubnetMod) + 1

\* C11: auto_assign_port(excluded) returns, and what it returns is the
\* least integer p >= 2222 that is not in excluded; the call leaves the
\* roster file and everything else as they were.
C11_FirstFit ==
    alloc.fn = "auto_assign_port" =>
        /\ ScanPort(alloc.excluded).stopped
        /\ alloc.value >= BasePort
        /\ alloc.value \notin alloc.excluded
        /\ \A q \in BasePort..(alloc.value - 1) : q \in alloc.excluded
        /\ csv = NoFile /\ pre = csv /\ wrote = "skipped" /\ op = "none"

\* the call auto_assign_port({2222, 2223, 2225}), which returns 2224
C11_Witness ==
    /\ alloc.fn = "auto_assign_port"
    /\ alloc.excluded = {BasePort, BasePort + 1, BasePort + 3}
    /\ alloc.value = BasePort + 2

\* C12: calculate_subnet_id(student_id, excluded) returns a value of 1..254
\* fixed by student_id and excluded alone: the natural subnet n when n is
\* not excluded, otherwise the first non-excluded value met going n+1,
\* n+2, ... with 254 wrapping to 1, and n itself when all are excluded.
C12_SubnetProbe ==
    alloc.fn = "calculate_subnet_id" =>
        LET n == NaturalSubnet(alloc.student_id)
            free == {k \in 0..(SubnetMod - 1) :
                        Onward(n, k) \notin alloc.excluded}
        IN  /\ n \in AllSubnets
            /\ alloc.value \in AllSubnets
            /\ n \notin alloc.excluded => alloc.value = n
            /\ free # {} =>
                  /\ alloc.value \notin alloc.excluded
                  /\ \E k \in free :
                        /\ alloc.value = Onward(n, k)
                        /\ \A j \in 0..(k - 1) : j \notin free
            /\ free = {} => alloc.value = n

\* a call whose probe wrapped from 254 to 1: the value returned is below
\* the natural subnet
C12_Witness ==
    /\ alloc.fn = "calculate_subnet_id"
    /\ NaturalSubnet(alloc.student_id) \in alloc.excluded
    /\ alloc.value < NaturalSubnet(alloc.student_id)
    /\ alloc.value \notin alloc.excluded

\* C13: when every value of 1..254 is excluded, the probe loop of
\* calculate_subnet_id stops after one full cycle (254 passes) at the
\* natural subnet, and an ensure_assignments run on a roster that uses all
\* 254 subnets completes and returns one record per batch student, an
\* unassigned student getting its natural subnet.
C13_Exhaustion ==
    (op = "ensure" /\ AllSubnets \subseteq get_used_subnets(pre)) =>
        /\ Len(result) = Len(batch)
        /\ wrote \in {"ok", "skipped"}
        /\ \A k \in 1..Len(batch) :
              LET n == NaturalSubnet(batch[k].student_id)
                  s == ProbeSubnet(n, get_used_subnets(pre))
              IN  /\ s.stopped /\ s.passes = SubnetMod /\ s.subnet_id = n
                  /\ result[k].student_id = batch[k].student_id
                  /\ result[k].subnet_id \in AllSubnets \cup {batch[k].subnet_id}
                  /\ batch[k].subnet_id = None => result[k].subnet_id = n

\* a run on a full roster that gave an unassigned student its natural
\* subnet and wrote the roster
C13_Witness ==
    /\ op = "ensure"
    /\ AllSubnets \subseteq get_used_subnets(pre)
    /\ wrote = "ok"
    /\ \E k \in 1..Len(batch) :
          /\ batch[k].subnet_id = None
          /\ result[k].subnet_id = NaturalSubnet(batch[k].student_id)

(***************************************************************************)
(* Properties of the orchestrator.  After an operation, pre is the roster  *)
(* file at the call, orch.before the students that had containers at the   *)
(* call, and orch.attempts the per-student operations that ran.            *)
(***************************************************************************)
Stops == {a \in orch.attempts : a.kind = "remove"}

Starts == {a \in orch.attempts : a.kind = "add"}

IdsOf(attempts) == {a.student_id : a \in attempts}

\* every command of the attempt names the project of the attempt's student
OwnCommands(a) ==
    /\ Len(a.cmds) = 1
    /\ a.cmds[1].project = ProjectName(a.student_id)
    /\ a.cmds[1].verb = (IF a.kind \in {"add", "up"} THEN "up" ELSE "down")

\* C14: with a non-empty roster, reconcile_with_csv issues a tear-down for
\* exactly the ids of running_ids minus roster_ids, a bring-up for exactly
\* the ids of roster_ids minus running_ids, one command each, scoped to
\* that id, and no command for an id of both sets.  roster_ids are the ids
\* of the roster file at the call; running_ids is what get_running_students
\* returned: the students that had containers, or nothing when the listing
\* command failed.
C14_ReconcileAddRemove ==
    (orch.name = "reconcile" /\ orch.students # <<>>) =>
        /\ orch.running_ids \in {orch.before, {}}
        /\ IdsOf(Stops) = orch.running_ids \ RowIds(pre)
        /\ IdsOf(Starts) = RowIds(pre) \ orch.running_ids
        /\ orch.attempts = Stops \cup Starts
        /\ Cardinality(orch.attempts)
             = Cardinality(IdsOf(Stops)) + Cardinality(IdsOf(Starts))
        /\ \A a \in orch.attempts : OwnCommands(a)
        /\ IdsOf(orch.attempts) \cap (orch.running_ids \cap RowIds(pre)) = {}

\* a reconcile that removed one student, added another and left a third,
\* running and on the roster, alone
C14_Witness ==
    /\ orch.name = "reconcile"
    /\ orch.students # <<>>
    /\ orch.running_ids = orch.before
    /\ Stops # {}
    /\ Starts # {}
    /\ orch.running_ids \cap RowIds(pre) # {}

\* the listing of the running environments did not fail: it was not reached
\* or it returned the students that had containers
ListingSound == orch.students = <<>> \/ orch.running_ids = orch.before

\* C15: for any roster that can be read, a roster without students
\* included, reconcile tears down every student that has containers and no
\* roster row.
C15_RemovesEveryOrphan ==
    (orch.name = "reconcile" /\ ~ReadFails(pre) /\ ListingSound) =>
        orch.before \ RowIds(pre) \subseteq IdsOf(Stops)

\* C16: on a roster that can be read, reconcile reports success if and only
\* if every tear-down and bring-up it issued succeeded, and a failed
\* operation keeps no other operation from being attempted.
C16_SuccessIffAllSucceeded ==
    (orch.name = "reconcile" /\ ~ReadFails(pre)) =>
        /\ orch.ret = "success" <=> \A a \in orch.attempts : a.ok
        /\ orch.students # <<>> =>
              /\ orch.running_ids \ RowIds(pre) \subseteq IdsOf(Stops)
              /\ RowIds(pre) \ orch.running_ids \subseteq IdsOf(Starts)

\* C17: the tear-down of a student that has containers and no roster row
\* issues one stop command for the project cyber-lab-<id>, with an
\* environment made from the id alone, looks nothing up in the roster, and
\* reports success exactly when the command succeeded.
C17_OrphanTearDown ==
    orch.name = "reconcile" =>
        \A a \in Stops :
            /\ a.student_id \notin RowIds(pre)
            /\ OwnCommands(a)
            /\ a.cmds[1].env = [STUDENT_ID |-> a.student_id,
                                NETWORK_NAME |-> ProjectName(a.student_id)]
            /\ ~a.lookup
            /\ a.exit # "none"
            /\ a.ok <=> a.exit = "ok"
            /\ a.ok => a.student_id \notin running

\* an orphan was torn down with success and another one failed
C17_Witness ==
    /\ orch.name = "reconcile"
    /\ \E a \in Stops : a.ok /\ a.student_id \in orch.before \ running
    /\ \E a \in Stops : ~a.ok /\ a.student_id \in running

ClassDone == orch.name \in ClassOps /\ orch.ret \in {"success", "failure"}

\* the operation ran once for each row of the roster, on that row's student
EveryStudentAttempted ==
    /\ {a.row : a \in orch.attempts} = 1..Len(pre.rows)
    /\ Cardinality(orch.attempts) = Len(pre.rows)
    /\ \A a \in orch.attempts :
          /\ a.student_id = pre.rows[a.row].student_id
          /\ a.kind = (IF orch.name = "spin_up_class" THEN "up" ELSE "down")
          /\ a.exit # "none"
          /\ OwnCommands(a)

\* C18 as stated: spin_up_class and spin_down_class, sequential or parallel,
\* attempt the operation for every roster student whatever the other
\* students' operations did, and return success if and only if every
\* student's operation succeeded.
C18_BatchIsolation ==
    (ClassDone /\ ~ReadFails(pre)) =>
        /\ EveryStudentAttempted
        /\ orch.ret = "success" <=> \A a \in orch.attempts : a.ok

\* C18, amended: the same for a roster of at least one student, with at
\* most MaxWorkers operations in flight in parallel mode and one in
\* sequential mode; on a roster without students, or one that cannot be
\* read, both return failure and attempt nothing.
C18_BatchIsolationAmended ==
    orch.name \in ClassOps =>
        /\ Cardinality(orch.inflight)
              <= (IF orch.parallel THEN MaxWorkers ELSE 1)
        /\ (ClassDone /\ orch.students # <<>>) =>
              /\ EveryStudentAttempted
              /\ orch.ret = "success" <=> \A a \in orch.attempts : a.ok
        /\ (ClassDone /\ orch.students = <<>>) =>
              /\ RowIds(pre) = {}
              /\ orch.attempts = {}
              /\ orch.ret = "failure"

\* a parallel run over a class larger than the pool, whose first student
\* failed and whose last student succeeded
C18_Witness ==
    /\ ClassDone
    /\ orch.parallel
    /\ Len(orch.students) > MaxWorkers
    /\ orch.ret = "failure"
    /\ \E a \in orch.attempts : a.row = 1 /\ ~a.ok
    /\ \E a \in orch.attempts : a.row = Len(orch.students) /\ a.ok

StudentOps ==
    {"spin_up_student", "spin_down_student", "force_remove",
     "get_running_students"}

\* C20: bring-up, tear-down and the listing of the running environments
\* never write the roster file, whatever the roster holds: after any of
\* them the file is what it was at the call.
C20_RosterUntouched == orch.name \in StudentOps => csv = pre

(***************************************************************************)
(* Properties of two unserialized invocations.                             *)
(***************************************************************************)
BothDone == \A p \in Procs : calls[p].pc = "done"

\* both invocations loaded the roster before either wrote it
Interleaved == BothDone /\ \A p \in Procs : calls[p].seen = 0

\* one invocation wrote the roster before the other loaded it
Serialized == BothDone /\ \E p \in Procs : calls[p].seen > 0

BatchIds(p) == {calls[p].students[i].student_id :
                   i \in 1..Len(calls[p].students)}

OnDisk == ParseRows(csv)

Holds(student_id, field, v) ==
    \E i \in 1..Len(OnDisk) :
        /\ OnDisk[i].student_id = student_id
        /\ (IF field = "port" THEN OnDisk[i].port ELSE OnDisk[i].subnet_id)
              = v

\* two different students hold the same port, or the same subnet, on disk
SharedOnDisk ==
    \E i, j \in 1..Len(OnDisk) :
        /\ OnDisk[i].student_id # OnDisk[j].student_id
        /\ \/ OnDisk[i].port > 0 /\ OnDisk[i].port = OnDisk[j].port
           \/ /\ OnDisk[i].subnet_id # None
              /\ OnDisk[i].subnet_id = OnDisk[j].subnet_id

\* C19: when two invocations for different students both load the roster
\* before either writes it, each resolves its batch against the roster as
\* it was, so both see the same port free and, for students of one natural
\* subnet, the same subnet free; both write, and the roster on disk ends
\* with the two students sharing that value.  When one invocation writes
\* before the other loads, no value is shared.
C19_LostIsolation ==
    /\ (Interleaved /\ BatchIds(1) \cap BatchIds(2) = {}) =>
          LET a == calls[1].students[1]
              b == calls[2].students[1]
              port == auto_assign_port(get_used_ports(pre))
              subnet == calculate_subnet_id(a.student_id,
                                            get_used_subnets(pre))
          IN  /\ \A p \in Procs :
                    calls[p].final.updated_students
                       = ensure_assignments(calls[p].students, pre).result
              /\ (a.port = 0 /\ b.port = 0) =>
                    /\ Holds(a.student_id, "port", port)
                    /\ Holds(b.student_id, "port", port)
                    /\ SharedOnDisk
              /\ (/\ a.subnet_id = None
                  /\ b.subnet_id = None
                  /\ Md5Mod254(a.student_id) = Md5Mod254(b.student_id)) =>
                    /\ Holds(a.student_id, "subnet_id", subnet)
                    /\ Holds(b.student_id, "subnet_id", subnet)
                    /\ SharedOnDisk
    /\ (Serialized /\ BatchIds(1) \cap BatchIds(2) = {}) => ~SharedOnDisk

\* both invocations loaded an empty roster, both wrote, and the roster
\* holds two students on port 2222
C19_Witness ==
    /\ Interleaved
    /\ \A p \in Procs : calls[p].wrote = "ok"
    /\ calls[1].students[1].student_id # calls[2].students[1].student_id
    /\ Holds(calls[1].students[1].student_id, "port", BasePort)
    /\ Holds(calls[2].students[1].student_id, "port", BasePort)

(***************************************************************************)
(* Properties of a roster load.                                            *)
(***************************************************************************)
\* the roster at the call held students of distinct ids, none of them with
\* a port or a subnet
NewClass(f) ==
    /\ ~ReadFails(f)
    /\ f.rows # <<>>
    /\ \A i \in 1..Len(f.rows) :
          /\ f.rows[i].port = <<>>
          /\ f.rows[i].subnet_id = <<>>
          /\ \A j \in 1..Len(f.rows) :
                i # j => f.rows[i].student_id # f.rows[j].student_id

\* C21: reprocessing a roster of N students of distinct ids, none with a
\* port or a subnet, gives the i-th student in roster order the port
\* 2222 + i (i from 0) and gives the N students pairwise distinct subnets
\* of 1..254, in the records returned and in the roster written.
C21_NewClassAssignment ==
    (op = "read" /\ NewClass(pre)) =>
        /\ Len(result) = Len(pre.rows)
        /\ wrote = "ok"
        /\ ParseRows(csv) = result
        /\ \A i \in 1..Len(result) :
              /\ result[i].student_id = pre.rows[i].student_id
              /\ result[i].port = BasePort + i - 1
              /\ result[i].subnet_id \in 1..SubnetMod
              /\ \A j \in 1..Len(result) :
                    i # j => result[i].subnet_id # result[j].subnet_id

\* a class of five students, two of them with the same natural subnet,
\* was loaded
C21_Witness ==
    /\ op = "read"
    /\ NewClass(pre)
    /\ Len(result) = Cardinality(AllocIds)
    /\ \E i, j \in 1..Len(result) :
          /\ i < j
          /\ Md5Mod254(result[i].student_id) = Md5Mod254(result[j].student_id)
          /\ result[j].subnet_id # NaturalSubnet(result[j].student_id)

\* what a cell text stands for: a positive integer, or nothing
Meaning(text) ==
    CASE text = <<"2", "2", "2", "2">> -> 2222
      [] text = <<"1", "8", "3">>      -> 183
      [] text = <<" ", "7", " ">>      -> 7
      [] OTHER                         -> 0

\* the roster file can be opened and has the columns of a roster
Readable(f) ==
    f.exists /\ {"student_id", "student_name"} \subseteq Range(f.header)

CellText(row, c) == IF c \in DOMAIN row THEN row[c] ELSE <<>>

\* C22: read_students_csv maps a missing, blank, non-numeric or
\* non-positive port to 0 and such a subnet_id to None, keeps every
\* positive integer, and returns the rows in file order.
C22_LoadNormalization ==
    (op = "load" /\ pre \in LoadFiles /\ Readable(pre)) =>
        /\ Len(result) = Len(pre.rows)
        /\ \A i \in 1..Len(result) :
              /\ result[i].student_id = pre.rows[i].student_id
              /\ result[i].student_name = pre.rows[i].student_name
              /\ result[i].port = Meaning(CellText(pre.rows[i], "port"))
              /\ result[i].subnet_id =
                    (IF Meaning(CellText(pre.rows[i], "subnet_id")) = 0
                     THEN None
                     ELSE Meaning(CellText(pre.rows[i], "subnet_id")))

\* the same for rosters whose cells hold no character that isdigit()
\* accepts and int() rejects
NoSuperDigit(f) ==
    \A i \in 1..Len(f.rows) : \A c \in {"port", "subnet_id"} :
        \A k \in 1..Len(CellText(f.rows[i], c)) :
            CellText(f.rows[i], c)[k] \notin SuperDigits

\* the roster file is missing or read_students_csv cannot parse it
Unparsable(f) ==
    \/ ~f.exists
    \/ f.rows # <<>> /\ ~Readable(f)
    \/ ~NoSuperDigit(f)

\* C23 as stated: when the roster file is missing or unparsable,
\* read_students_csv returns an empty roster, get_used_ports and
\* get_used_subnets return the empty set, and the file is left as it was.
C23_SoftFailure ==
    Unparsable(pre) =>
        /\ op \in {"load", "read"} => result = <<>>
        /\ op = "used" => alloc.value = {}
        /\ op # "none" => csv = pre

\* the scan of column c of the file raises: a cell of that column holds a
\* character that isdigit() accepts and int() rejects
ScanFails(f, c) ==
    \E i \in 1..Len(f.rows) : \E k \in 1..Len(CellText(f.rows[i], c)) :
        CellText(f.rows[i], c)[k] \in SuperDigits

\* C23, amended: each of the three returns its empty value when the file is
\* missing or it cannot parse it itself, and leaves the file as it was;
\* a file that read_students_csv cannot parse may still yield its ports
\* and subnets to get_used_ports and get_used_subnets.
C23_SoftFailureAmended ==
    /\ (op \in {"load", "read"} /\ Unparsable(pre)) =>
          result = <<>> /\ csv = pre
    /\ (op = "used" /\ alloc.fn = "get_used_ports"
          /\ (~pre.exists \/ ScanFails(pre, "port"))) =>
          alloc.value = {} /\ csv = pre
    /\ (op = "used" /\ alloc.fn = "get_used_subnets"
          /\ (~pre.exists \/ ScanFails(pre, "subnet_id"))) =>
          alloc.value = {} /\ csv = pre
    /\ op = "used" => csv = pre

\* a load of a roster with a row that cannot be parsed returned nothing,
\* and a scan of a missing roster returned the empty set
C23_Witness ==
    \/ /\ op = "load"
       /\ pre.exists
       /\ Len(pre.rows) = 2
       /\ Unparsable(pre)
       /\ result = <<>>
    \/ /\ op = "used"
       /\ ~pre.exists
       /\ alloc.value = {}

(***************************************************************************)
(* Properties of operations that need roster data.                         *)
(***************************************************************************)
\* C24: spin_down_student for a student that is not on the roster, and
\* spin_up_class and spin_down_class on a roster that is missing or holds
\* no student, return failure and issue no start or stop command.
C24_FailsWithoutCommand ==
    /\ orch.name = "spin_down_student" =>
          \A a \in orch.attempts :
              a.student_id \notin RowIds(pre) =>
                 /\ orch.ret = "failure"
                 /\ ~a.ok
                 /\ a.cmds = <<>>
                 /\ a.exit = "none"
    /\ (orch.name \in ClassOps /\ RowIds(pre) = {}) =>
          /\ orch.ret = "failure"
          /\ orch.attempts = {}
          /\ orch.inflight = {}

\* spin_down_student was asked to stop a student that has containers and
\* is not on a roster of other students
C24_Witness ==
    /\ orch.name = "spin_down_student"
    /\ RowIds(pre) # {}
    /\ \E a \in orch.attempts :
          /\ a.student_id \notin RowIds(pre)
          /\ a.student_id \in running

(***************************************************************************)
(* Properties of the runtime by container.                                 *)
(***************************************************************************)
\* C25: when the listing command succeeds, get_running_students returns
\* exactly the student ids that have containers named <service>-<id> in the
\* runtime
C25_ListingRoundTrip ==
    (orch.name = "get_running_students" /\ orch.ret = "success")
        => orch.running_ids = Having(containers)

\* the students whose start the last operation attempted and saw fail, none
\* of whose containers existed before the attempt
FailedStarts(o) ==
    IF o.name = "spin_up_student" /\ o.ret = "failure"
    THEN {a.student_id : a \in o.attempts} \ o.before
    ELSE {}

\* C26: after a start that failed and left the student's environment
\* absent or partially created, the next reconcile of a roster holding the
\* student attempts to bring the student up again
C26_FailedStartRetried ==
    [][\A id \in FailedStarts(orch) :
           (orch'.name = "reconcile" /\ id \in RowIds(csv))
               => \E a \in orch'.attempts :
                      a.kind = "add" /\ a.student_id = id]_vars

(***************************************************************************)
(* Properties of ensure_assignments, continued.                            *)
(***************************************************************************)
\* the records of the batch that came back with a port or a subnet the
\* caller did not pass in
NewlyAllocated ==
    {k \in 1..Len(result) :
        \/ result[k].port # batch[k].port
        \/ result[k].subnet_id # batch[k].subnet_id}

\* C27: when the rewrite of the roster fails during ensure_assignments the
\* caller is told so: it is not handed newly allocated assignments as the
\* value of the call
C27_WriteFailureSignalled ==
    (op = "ensure" /\ wrote = "failed") => NewlyAllocated = {}

\* the ports and subnets that records 1..k-1 of the batch ended with
PortsClaimedBefore(k) == {result[j].port : j \in 1..(k - 1)}

SubnetsClaimedBefore(k) == {result[j].subnet_id : j \in 1..(k - 1)}

\* the positive ports and subnets written in the rows of a roster file, and
\* the student_ids of the rows that carry one of them
WrittenPorts(f) == {ParsePort(f.rows[i]) : i \in 1..Len(f.rows)} \ {0}

WrittenSubnets(f) == {ParseSubnet(f.rows[i]) : i \in 1..Len(f.rows)} \ {None}

WritersOfPort(f, p) ==
    {f.rows[i].student_id :
        i \in {j \in 1..Len(f.rows) : /\ HasCol(f.rows[j], "student_id")
                                      /\ ParsePort(f.rows[j]) = p}}

WritersOfSubnet(f, s) ==
    {f.rows[i].student_id :
        i \in {j \in 1..Len(f.rows) : /\ HasCol(f.rows[j], "student_id")
                                      /\ ParseSubnet(f.rows[j]) = s}}

\* the rule of the keep-or-reassign decision for the port of record k
MayKeepPort(k) ==
    /\ batch[k].port # None /\ batch[k].port > 0
    /\ batch[k].port \notin PortsClaimedBefore(k)
    /\ batch[k].port \notin duplicate_ports(Old)
    /\ \/ batch[k].port \notin WrittenPorts(pre)
       \/ batch[k].student_id \in WritersOfPort(pre, batch[k].port)

MayKeepSubnet(k) ==
    /\ batch[k].subnet_id # None /\ batch[k].subnet_id # 0
    /\ batch[k].subnet_id \notin SubnetsClaimedBefore(k)
    /\ batch[k].subnet_id \notin duplicate_subnets(Old)
    /\ \/ batch[k].subnet_id \notin WrittenSubnets(pre)
       \/ batch[k].student_id \in WritersOfSubnet(pre, batch[k].subnet_id)

PortRuleAt(k) ==
    IF MayKeepPort(k)
    THEN result[k].port = batch[k].port
    ELSE /\ result[k].port # batch[k].port
         /\ result[k].port \notin WrittenPorts(pre) \cup PortsClaimedBefore(k)

SubnetRuleAt(k) ==
    IF MayKeepSubnet(k)
    THEN result[k].subnet_id = batch[k].subnet_id
    ELSE /\ result[k].subnet_id # batch[k].subnet_id
         /\ result[k].subnet_id
                \notin WrittenSubnets(pre) \cup SubnetsClaimedBefore(k)

\* the subnet half of the rule of C28
C28_SubnetRule ==
    (op = "ensure" /\ batch # <<>>) => \A k \in 1..Len(batch) : SubnetRuleAt(k)

\* C28: ensure_assignments keeps the port of a batch record exactly when
\* the port is valid, not claimed earlier in the batch, not flagged as an
\* on-disk duplicate and either not recorded on disk or recorded under the
\* same student_id, and otherwise allocates a port outside the recorded and
\* the batch-claimed ones; the same rule decides the subnet_id
C28_KeepOrReassign ==
    (op = "ensure" /\ batch # <<>>)
        => \A k \in 1..Len(batch) : PortRuleAt(k) /\ SubnetRuleAt(k)

\* the subnets in use once the call has returned: those written in the
\* roster and those the returned records hold
SubnetsInUse ==
    (get_used_subnets(pre) \cup SubnetsOf(result)) \cap (1..SubnetMod)

\* C29: the records one invocation of ensure_assignments returns hold
\* pairwise distinct ports and, while fewer than 254 subnets are in use,
\* pairwise distinct subnets
C29_BatchDistinct ==
    (op \in {"ensure", "read"})
        => \A i, j \in 1..Len(result) :
               i < j => /\ result[i].port # result[j].port
                        /\ Cardinality(SubnetsInUse) < SubnetMod
                              => result[i].subnet_id # result[j].subnet_id

\* two records of a batch asked for the same port and the same subnet: the
\* first kept them, the second was given others
C29_Witness ==
    /\ op = "ensure"
    /\ Len(batch) = 2
    /\ batch[1].port > 0
    /\ batch[2].port = batch[1].port
    /\ batch[2].subnet_id = batch[1].subnet_id
    /\ batch[1].subnet_id # None
    /\ result[1].port = batch[1].port
    /\ result[1].subnet_id = batch[1].subnet_id
    /\ result[2].port # batch[2].port
    /\ result[2].subnet_id # batch[2].subnet_id

\* the values the loaded roster records under more than one student_id
SharedPorts(students) ==
    {p \in PortsOf(students) : Cardinality(HoldersOfPort(students, p)) > 1}

SharedSubnets(students) ==
    {s \in SubnetsOf(students) \ {0} :
        Cardinality(HoldersOfSubnet(students, s)) > 1}

\* C30: a port or subnet is flagged as an on-disk duplicate exactly when the
\* roster records it under more than one student_id; a record asking for a
\* value that its student_id alone holds on disk, in one row or several,
\* and that no earlier record of the batch claimed, keeps it
C30_DuplicateMeansShared ==
    (op = "ensure" /\ batch # <<>>)
        => /\ duplicate_ports(Old) = SharedPorts(Old)
           /\ duplicate_subnets(Old) = SharedSubnets(Old)
           /\ \A k \in 1..Len(batch) :
                 /\ (/\ HoldersOfPort(Old, batch[k].port)
                           = {batch[k].student_id}
                     /\ batch[k].port > 0
                     /\ batch[k].port \notin PortsClaimedBefore(k))
                       => result[k].port = batch[k].port
                 /\ (/\ HoldersOfSubnet(Old, batch[k].subnet_id)
                           = {batch[k].student_id}
                     /\ batch[k].subnet_id # None
                     /\ batch[k].subnet_id \notin SubnetsClaimedBefore(k))
                       => result[k].subnet_id = batch[k].subnet_id

(***************************************************************************)
(* Properties of the order of the calls of one operation.                  *)
(***************************************************************************)
Positions(events, verb) == {k \in 1..Len(events) : events[k].verb = verb}

\* C31: within one reconcile_with_csv every tear-down is issued before the
\* first bring-up, and ensure_assignments has returned before either
C31_ReconcileOrdering ==
    (orch.name = "reconcile")
        => /\ \A d \in Positions(orch.events, "down") :
                 \A u \in Positions(orch.events, "up") : d < u
           /\ \A c \in Positions(orch.events, "down")
                           \cup Positions(orch.events, "up") :
                 \E e \in Positions(orch.events, "ensure") : e < c

\* a reconcile that removed a student and started another
C31_Witness ==
    /\ orch.name = "reconcile"
    /\ Positions(orch.events, "down") # {}
    /\ Positions(orch.events, "up") # {}
    /\ Cardinality(Positions(orch.events, "ensure")) = 2

\* C32: during a class operation no worker is inside ensure_assignments
\* while another worker is inside it
C32_EnsureNeverConcurrent ==
    (orch.name \in ClassOps) => Cardinality(orch.ensuring) <= 1

\* the start command carries the identity of its student and the port and
\* subnet that a row of the student holds in the roster on disk
CarriesRecorded(cmd) ==
    /\ cmd.project = ProjectName(cmd.env.STUDENT_ID)
    /\ cmd.env.NETWORK_NAME = ProjectName(cmd.env.STUDENT_ID)
    /\ \E i \in 1..Len(New) :
          /\ New[i].student_id = cmd.env.STUDENT_ID
          /\ StrOf(New[i].port) = cmd.env.SSH_PORT
          /\ New[i].subnet_id # None
          /\ StrOf(New[i].subnet_id) = cmd.env.SUBNET_ID

C34_RecreateStopsThenStarts ==
    (orch.name = "recreate_student")
        => IF orch.students # <<>>
           THEN \E d \in Positions(orch.events, "down") :
                \E u \in Positions(orch.events, "up") :
                   /\ d < u
                   /\ orch.events[d].project
                        = ProjectName(orch.students[1].student_id)
                   /\ orch.events[u].project
                        = ProjectName(orch.students[1].student_id)
           ELSE /\ orch.ret = "failure"
                /\ Positions(orch.events, "down") = {}
                /\ Positions(orch.events, "up") = {}

(***************************************************************************)
(* Properties of runs of ensure_assignments that follow one another.       *)
(***************************************************************************)
\* every row is assigned and no two rows hold the same port or subnet
PairwiseDistinct(students) ==
    /\ \A i \in 1..Len(students) :
          students[i].port > 0 /\ students[i].subnet_id # None
    /\ \A i, j \in 1..Len(students) :
          i # j => /\ students[i].port # students[j].port
                   /\ students[i].subnet_id # students[j].subnet_id

\* C35: whatever the interleaved invocations left in a roster of distinct
\* student_ids, one reprocessing of the whole roster leaves it with
\* pairwise distinct ports and pairwise distinct subnets
C35_SelfHealing ==
    (op = "read" /\ Distinct(Old) /\ Len(Old) < SubnetMod)
        => PairwiseDistinct(New) /\ Ids(New) = Ids(Old)

\* two interleaved invocations left two students on the same port and the
\* same subnet, and the reprocessing separated them
C35_Witness ==
    /\ op = "read"
    /\ \A p \in Procs : calls[p].pc = "done"
    /\ Distinct(Old)
    /\ \E i, j \in 1..Len(Old) :
          /\ i # j
          /\ Old[i].port > 0
          /\ Old[i].port = Old[j].port
          /\ Old[i].subnet_id # None
          /\ Old[i].subnet_id = Old[j].subnet_id
    /\ PairwiseDistinct(New)

\* C36: an ensure_assignments run on a roster in which no two students
\* share a port or a subnet leaves a roster in which no two students share
\* a port or a subnet, whatever the batch
C36_ConflictFreePreserved ==
    (op = "ensure" /\ PortConflictFree(Old) /\ SubnetConflictFree(Old))
        => PortConflictFree(New) /\ SubnetConflictFree(New)

\* C37: a reprocessing of the whole roster that follows another one
\* changes nothing and writes nothing
C37_SecondRunIdle ==
    (op = "read" /\ prev = "read")
        => wrote = "skipped" /\ csv = pre /\ result = batch

\* the roster on disk has a row of the student with the port and subnet of
\* the record
Persisted(record) ==
    \E i \in 1..Len(New) :
        /\ New[i].student_id = record.student_id
        /\ New[i].port = record.port
        /\ New[i].subnet_id = record.subnet_id

\* C38: after an ensure_assignments run that changed something the list
\* returned has the length, the order and the student_ids of the batch, and
\* every record of it is on disk with the port and subnet returned
C38_ReturnedIsPersisted ==
    (op \in {"ensure", "read"} /\ wrote # "skipped")
        => /\ Len(result) = Len(batch)
           /\ \A k \in 1..Len(result) :
                 /\ result[k].student_id = batch[k].student_id
                 /\ Persisted(result[k])

\* the student_ids of the rows a roster file holds, readable or not
WrittenIds(f) ==
    {f.rows[i].student_id :
        i \in {j \in 1..Len(f.rows) : HasCol(f.rows[j], "student_id")}}

\* C39: every student_id the roster on disk held before an
\* ensure_assignments run is still in the roster on disk after it
C39_NoRecordDropped ==
    op = "ensure" => WrittenIds(pre) \subseteq WrittenIds(csv)

\* the listing of the reconcile recorded in o returned the students that
\* get_running_students recovers from the names of the containers of ids
ListingWorked(o, ids) ==
    o.running_ids = get_running_students(Containers(ids), TRUE)

\* C40: a reconcile_with_csv that follows at once a reconcile_with_csv in
\* which every operation succeeded finds nothing to add and nothing to
\* remove, and issues no start and no stop command
C40_ReconcileConverges ==
    [][(/\ orch.name = "reconcile"
        /\ orch.ret = "success"
        /\ ListingWorked(orch, orch.before)
        /\ orch'.name = "reconcile"
        /\ ListingWorked(orch', Having(containers)))
           => orch'.attempts = {}]_vars

====
